---- MODULE Spec2Model ----
(***************************************************************************)
(* prinfer: hover-style lookup of the type the TypeScript checker infers   *)
(* at a position or for a symbol name.                                     *)
(*                                                                         *)
(* The model covers the node locator (src/core/hover.ts), the extractor    *)
(* getHoverInfo and the public entry points hover / batchHover             *)
(* (src/index.ts).  A source file is a text (a sequence of characters,     *)
(* where only the line terminators matter) together with its syntax tree   *)
(* (a table of nodes in pre-order, each with its kind, token start, end,   *)
(* parent and the children the code reads by name).  The compiler's line   *)
(* map and its position conversion are computed from the text the way the  *)
(* compiler computes them.                                                 *)
(***************************************************************************)
EXTENDS Integers, Sequences, FiniteSets, TLC

(***************************************************************************)
(* Bounds of the model.                                                    *)
(***************************************************************************)
\* queried lines range over 0..MaxLine (every file has fewer lines)
MaxLine == 7
\* queried columns range over 0..MaxColumn (every line is shorter)
MaxColumn == 30
\* queried offsets range over 0..MaxPosition (every text is shorter)
MaxPosition == 112
\* a batch holds at most MaxBatch positions
MaxBatch == 2

(***************************************************************************)
(* Values standing for JavaScript's undefined.                             *)
(***************************************************************************)
\* an omitted optional number (options.line)
Undefined == -1
\* an absent node (ts.Node | undefined)
NoNode == 0
\* an absent string (getNodeName's undefined, an absent returnType, ...)
NoString == "<undefined>"

(***************************************************************************)
(* Source text.  A character is "c" (any character that is not a line      *)
(* terminator), "LF" or "CR".  Offsets are 0-based as in the compiler:     *)
(* the character at offset p is text[p + 1].                               *)
(***************************************************************************)
Chars(n) == [i \in 1..n |-> "c"]
LF == <<"LF">>
CRLF == <<"CR", "LF">>

\* decls.ts, LF line ends, ends with a line terminator:
\*   1  /** d */ function f() {}
\*   2  const v = 1;
\*   3  const g = () => 1;
\*   4  class C { m() {} "s"() {} }
\*   5  interface I { p(): void }
\*   6  (empty)
TextDecls ==
    Chars(24) \o LF \o Chars(12) \o LF \o Chars(18) \o LF \o
    Chars(27) \o LF \o Chars(25) \o LF

\* calls.ts, CR LF line ends, no terminator after the last line:
\*   1  // c
\*   2  f(v);
\*   3  o.h(g(1)).j();
\*   4  const a = () =>
\*   5    a();
TextCalls ==
    Chars(4) \o CRLF \o Chars(5) \o CRLF \o Chars(14) \o CRLF \o
    Chars(15) \o CRLF \o Chars(6)

\* object.ts, LF line ends, no terminator after the last line:
\*   1  const u = { w: () => u, y: 2 };
\*   2  u.w()
TextObject ==
    Chars(31) \o LF \o Chars(5)

(***************************************************************************)
(* Syntax trees.  Node ids are the pre-order numbers, so the children of   *)
(* a node in source order are its children in increasing id.  start is     *)
(* node.getStart(sourceFile) (the first token, leading trivia skipped),    *)
(* end is node.getEnd().  name / expression / initializer hold the id of   *)
(* the child the compiler exposes under that property (NoNode if none)     *)
(* and text holds the text of an identifier or literal.                    *)
(***************************************************************************)
N(kind, start, end, parent, name, expression, initializer, text) ==
    [kind |-> kind, start |-> start, end |-> end, parent |-> parent,
     name |-> name, expression |-> expression, initializer |-> initializer,
     text |-> text]

TreeDecls == <<
    N("SourceFile",                9, 111,  0,  0, 0,  0, ""),
    N("FunctionDeclaration",       9,  24,  1,  3, 0,  0, ""),
    N("Identifier",               18,  19,  2,  0, 0,  0, "f"),
    N("Block",                    22,  24,  2,  0, 0,  0, ""),
    N("VariableStatement",        25,  37,  1,  0, 0,  0, ""),
    N("VariableDeclarationList",  25,  36,  5,  0, 0,  0, ""),
    N("VariableDeclaration",      31,  36,  6,  8, 0,  9, ""),
    N("Identifier",               31,  32,  7,  0, 0,  0, "v"),
    N("NumericLiteral",           35,  36,  7,  0, 0,  0, "1"),
    N("VariableStatement",        38,  56,  1,  0, 0,  0, ""),
    N("VariableDeclarationList",  38,  55, 10,  0, 0,  0, ""),
    N("VariableDeclaration",      44,  55, 11, 13, 0, 14, ""),
    N("Identifier",               44,  45, 12,  0, 0,  0, "g"),
    N("ArrowFunction",            48,  55, 12,  0, 0,  0, ""),
    N("EqualsGreaterThanToken",   51,  53, 14,  0, 0,  0, ""),
    N("NumericLiteral",           54,  55, 14,  0, 0,  0, "1"),
    N("ClassDeclaration",         57,  84,  1, 18, 0,  0, ""),
    N("Identifier",               63,  64, 17,  0, 0,  0, "C"),
    N("MethodDeclaration",        67,  73, 17, 20, 0,  0, ""),
    N("Identifier",               67,  68, 19,  0, 0,  0, "m"),
    N("Block",                    71,  73, 19,  0, 0,  0, ""),
    N("MethodDeclaration",        74,  82, 17, 23, 0,  0, ""),
    N("StringLiteral",            74,  77, 22,  0, 0,  0, "s"),
    N("Block",                    80,  82, 22,  0, 0,  0, ""),
    N("InterfaceDeclaration",     85, 110,  1, 26, 0,  0, ""),
    N("Identifier",               95,  96, 25,  0, 0,  0, "I"),
    N("MethodSignature",          99, 108, 25, 28, 0,  0, ""),
    N("Identifier",               99, 100, 27,  0, 0,  0, "p"),
    N("VoidKeyword",             104, 108, 27,  0, 0,  0, ""),
    N("EndOfFileToken",          111, 111,  1,  0, 0,  0, "")
>>

TreeCalls == <<
    N("SourceFile",               6,  52,  0,  0,  0,  0, ""),
    N("ExpressionStatement",      6,  11,  1,  0,  3,  0, ""),
    N("CallExpression",           6,  10,  2,  0,  4,  0, ""),
    N("Identifier",               6,   7,  3,  0,  0,  0, "f"),
    N("Identifier",               8,   9,  3,  0,  0,  0, "v"),
    N("ExpressionStatement",     13,  27,  1,  0,  7,  0, ""),
    N("CallExpression",          13,  26,  6,  0,  8,  0, ""),
    N("PropertyAccessExpression",13,  24,  7, 16,  9,  0, ""),
    N("CallExpression",          13,  22,  8,  0, 10,  0, ""),
    N("PropertyAccessExpression",13,  16,  9, 12, 11,  0, ""),
    N("Identifier",              13,  14, 10,  0,  0,  0, "o"),
    N("Identifier",              15,  16, 10,  0,  0,  0, "h"),
    N("CallExpression",          17,  21,  9,  0, 14,  0, ""),
    N("Identifier",              17,  18, 13,  0,  0,  0, "g"),
    N("NumericLiteral",          19,  20, 13,  0,  0,  0, "1"),
    N("Identifier",              23,  24,  8,  0,  0,  0, "j"),
    N("VariableStatement",       29,  52,  1,  0,  0,  0, ""),
    N("VariableDeclarationList", 29,  51, 17,  0,  0,  0, ""),
    N("VariableDeclaration",     35,  51, 18, 20,  0, 21, ""),
    N("Identifier",              35,  36, 19,  0,  0,  0, "a"),
    N("ArrowFunction",           39,  51, 19,  0,  0,  0, ""),
    N("EqualsGreaterThanToken",  42,  44, 21,  0,  0,  0, ""),
    N("CallExpression",          48,  51, 21,  0, 24,  0, ""),
    N("Identifier",              48,  49, 23,  0,  0,  0, "a"),
    N("EndOfFileToken",          52,  52,  1,  0,  0,  0, "")
>>

TreeObject == <<
    N("SourceFile",               0,  37,  0,  0,  0,  0, ""),
    N("VariableStatement",        0,  31,  1,  0,  0,  0, ""),
    N("VariableDeclarationList",  0,  30,  2,  0,  0,  0, ""),
    N("VariableDeclaration",      6,  30,  3,  5,  0,  6, ""),
    N("Identifier",               6,   7,  4,  0,  0,  0, "u"),
    N("ObjectLiteralExpression", 10,  30,  4,  0,  0,  0, ""),
    N("PropertyAssignment",      12,  22,  6,  8,  0,  9, ""),
    N("Identifier",              12,  13,  7,  0,  0,  0, "w"),
    N("ArrowFunction",           15,  22,  7,  0,  0,  0, ""),
    N("EqualsGreaterThanToken",  18,  20,  9,  0,  0,  0, ""),
    N("Identifier",              21,  22,  9,  0,  0,  0, "u"),
    N("PropertyAssignment",      24,  28,  6, 13,  0, 14, ""),
    N("Identifier",              24,  25, 12,  0,  0,  0, "y"),
    N("NumericLiteral",          27,  28, 12,  0,  0,  0, "2"),
    N("ExpressionStatement",     32,  37,  1,  0, 16,  0, ""),
    N("CallExpression",          32,  37, 15,  0, 17,  0, ""),
    N("PropertyAccessExpression",32,  35, 16, 19, 18,  0, ""),
    N("Identifier",              32,  33, 17,  0,  0,  0, "u"),
    N("Identifier",              34,  35, 17,  0,  0,  0, "w"),
    N("EndOfFileToken",          37,  37,  1,  0,  0,  0, "")
>>

\* a parsed source file: ts.SourceFile (fileName, text, the tree)
(***************************************************************************)
(* The compiler's line map (ts.computeLineStarts): a line ends at "LF", at *)
(* "CR" and at the pair "CR" "LF" taken as one terminator; the result is   *)
(* the sequence of 0-based offsets at which the lines start.               *)
(***************************************************************************)
\* offset p starts a line when it is 0 or follows a terminator: an "LF", or
\* a "CR" that is not followed by "LF"
isLineStart(text, p) ==
    \/ p = 0
    \/ /\ p >= 1 /\ p <= Len(text)
       /\ \/ text[p] = "LF"
          \/ text[p] = "CR" /\ ~(p < Len(text) /\ text[p + 1] = "LF")

\* the elements of a set of numbers in increasing order
sorted(S) ==
    [i \in 1..Cardinality(S) |->
        CHOOSE x \in S : Cardinality({y \in S : y < x}) = i - 1]

computeLineStarts(text) ==
    sorted({p \in 0..Len(text) : isLineStart(text, p)})

(***************************************************************************)
(* Source files.                                                           *)
(***************************************************************************)
\* the children ts.forEachChild visits, in the order it visits them
childrenOf(tree, n) ==
    SelectSeq([i \in 1..Len(tree) |-> i], LAMBDA c : tree[c].parent = n)

\* a parsed ts.SourceFile: its name, text and tree, the line map the
\* compiler computes from the text and keeps, and the child lists of the
\* nodes; documented holds the names of the symbols with a doc comment,
\* unresolved the calls and declarations the checker has no signature for
SF(fileName, text, tree, documented, unresolved) ==
    [fileName |-> fileName, text |-> text, tree |-> tree,
     documented |-> documented, unresolved |-> unresolved,
     lineMap |-> computeLineStarts(text),
     children |-> [n \in 1..Len(tree) |-> childrenOf(tree, n)]]

SourceFiles == {
    SF("/cwd/decls.ts", TextDecls, TreeDecls, {"f"}, {19, 22}),
    SF("/cwd/calls.ts", TextCalls, TreeCalls, {}, {13}),
    SF("/cwd/object.ts", TextObject, TreeObject, {}, {}) }

\* sourceFile.getLineStarts(), as a 1-indexed sequence of 0-based offsets
getLineStarts(sf) == sf.lineMap

\* sourceFile.getEnd(): the length of the text
getEnd(sf) == Len(sf.text)

\* sourceFile.getLineAndCharacterOfPosition(position): 0-based line and
\* character; the line is the last one that starts at or before position
getLineAndCharacterOfPosition(sf, position) ==
    LET starts == getLineStarts(sf)
        l == CHOOSE i \in 1..Len(starts) :
                /\ starts[i] <= position
                /\ \A j \in 1..Len(starts) : starts[j] <= position => j <= i
    IN [line |-> l - 1, character |-> position - starts[l]]

\* sourceFile.getPositionOfLineAndCharacter(line, character), both 0-based
\* (ts.computePositionOfLineAndCharacter without allowEdits): it raises a
\* "Debug Failure" Error for a line outside the line map, for a result at or
\* past the start of the next line and, on the last line, for a result past
\* the end of the text.
getPositionOfLineAndCharacter(sf, line, character) ==
    LET starts == getLineStarts(sf) IN
    IF line < 0 \/ line >= Len(starts)
    THEN [threw |-> TRUE, position |-> 0]
    ELSE LET res == starts[line + 1] + character IN
         IF line < Len(starts) - 1
         THEN [threw |-> ~(res < starts[line + 2]), position |-> res]
         ELSE [threw |-> ~(res <= Len(sf.text)), position |-> res]

(***************************************************************************)
(* Syntax tree access.                                                     *)
(***************************************************************************)
Nodes(sf) == 1..Len(sf.tree)
Root == 1

getStart(sf, n) == sf.tree[n].start
getNodeEnd(sf, n) == sf.tree[n].end
getWidth(sf, n) == getNodeEnd(sf, n) - getStart(sf, n)
kindOf(sf, n) == sf.tree[n].kind

\* the children ts.forEachChild visits, in the order it visits them
forEachChild(sf, n) == sf.children[n]

isKind(sf, n, k) == n # NoNode /\ kindOf(sf, n) = k
isIdentifier(sf, n) == isKind(sf, n, "Identifier")
isStringLiteral(sf, n) == isKind(sf, n, "StringLiteral")
isNumericLiteral(sf, n) == isKind(sf, n, "NumericLiteral")
isCallExpression(sf, n) == isKind(sf, n, "CallExpression")
isPropertyAccessExpression(sf, n) == isKind(sf, n, "PropertyAccessExpression")
isFunctionDeclaration(sf, n) == isKind(sf, n, "FunctionDeclaration")
isVariableDeclaration(sf, n) == isKind(sf, n, "VariableDeclaration")
isMethodDeclaration(sf, n) == isKind(sf, n, "MethodDeclaration")
isMethodSignature(sf, n) == isKind(sf, n, "MethodSignature")
isPropertyAssignment(sf, n) == isKind(sf, n, "PropertyAssignment")
isClassDeclaration(sf, n) == isKind(sf, n, "ClassDeclaration")
isInterfaceDeclaration(sf, n) == isKind(sf, n, "InterfaceDeclaration")
isArrowFunction(sf, n) == isKind(sf, n, "ArrowFunction")
isFunctionExpression(sf, n) == isKind(sf, n, "FunctionExpression")

nameOf(sf, n) == sf.tree[n].name
expressionOf(sf, n) == sf.tree[n].expression
initializerOf(sf, n) == sf.tree[n].initializer
textOf(sf, n) == sf.tree[n].text

\* position >= x.getStart(sourceFile) && position < x.getEnd()
spans(sf, x, position) ==
    position >= getStart(sf, x) /\ position < getNodeEnd(sf, x)

(***************************************************************************)
(* Node matcher (node-match part of src/core/hover.ts).                    *)
(***************************************************************************)
isArrowOrFnExpr(sf, n) ==
    n # NoNode /\ (isArrowFunction(sf, n) \/ isFunctionExpression(sf, n))

nodeNameText(sf, n) ==
    IF n = NoNode THEN NoString
    ELSE IF isIdentifier(sf, n) THEN textOf(sf, n)
    ELSE IF isStringLiteral(sf, n) THEN textOf(sf, n)
    ELSE IF isNumericLiteral(sf, n) THEN textOf(sf, n)
    ELSE NoString

isFunctionLikeNamed(sf, node, name) ==
    IF isFunctionDeclaration(sf, node) /\ nameOf(sf, node) # NoNode
          /\ textOf(sf, nameOf(sf, node)) = name
    THEN TRUE
    ELSE IF isVariableDeclaration(sf, node) /\ isIdentifier(sf, nameOf(sf, node))
               /\ textOf(sf, nameOf(sf, node)) = name
    THEN isArrowOrFnExpr(sf, initializerOf(sf, node))
    ELSE IF (isMethodDeclaration(sf, node) \/ isMethodSignature(sf, node))
               /\ nodeNameText(sf, nameOf(sf, node)) = name
    THEN TRUE
    ELSE IF isPropertyAssignment(sf, node)
               /\ nodeNameText(sf, nameOf(sf, node)) = name
    THEN isArrowOrFnExpr(sf, initializerOf(sf, node))
    ELSE FALSE

isVariableNamed(sf, node, name) ==
    /\ isVariableDeclaration(sf, node)
    /\ isIdentifier(sf, nameOf(sf, node))
    /\ textOf(sf, nameOf(sf, node)) = name

isNamedNode(sf, node, name) ==
    isFunctionLikeNamed(sf, node, name) \/ isVariableNamed(sf, node, name)

isCallExpressionNamed(sf, node, name) ==
    IF ~isCallExpression(sf, node) THEN FALSE
    ELSE LET expr == expressionOf(sf, node) IN
         IF isIdentifier(sf, expr) /\ textOf(sf, expr) = name THEN TRUE
         ELSE IF isPropertyAccessExpression(sf, expr)
                    /\ textOf(sf, nameOf(sf, expr)) = name THEN TRUE
         ELSE FALSE

\* the line number, were it taken at the node's end
getLineNumberOfEnd(sf, node) ==
    getLineAndCharacterOfPosition(sf, getNodeEnd(sf, node)).line + 1

\* the 1-based line of the node's first character
getLineNumber(sf, node) ==
    getLineAndCharacterOfPosition(sf, getStart(sf, node)).line + 1

(***************************************************************************)
(* Node locator, by name (findNodeByNameAndLine).                          *)
(***************************************************************************)
\* the closure matchesLine: line === undefined, or the node's line is line
matchesLine(sf, node, line) ==
    IF line = Undefined THEN TRUE
    ELSE getLineNumber(sf, node) = line

\* the closure visit of findNodeByNameAndLine, returning the new value of
\* found; visitByNameEach is ts.forEachChild(node, visit), whose callback
\* returns nothing, so every child is visited
RECURSIVE visitByName(_, _, _, _, _), visitByNameEach(_, _, _, _, _)
\* visit, were a node of the right name on another line to end the search of
\* its subtree
visitByNamePrunes(sf, name, line, node, found) ==
    IF found # NoNode THEN found
    ELSE IF isNamedNode(sf, node, name) \/ isCallExpressionNamed(sf, node, name)
    THEN IF matchesLine(sf, node, line) THEN node ELSE found
    ELSE visitByNameEach(sf, name, line, forEachChild(sf, node), found)
visitByName(sf, name, line, node, found) ==
    IF found # NoNode THEN found
    ELSE IF isNamedNode(sf, node, name) /\ matchesLine(sf, node, line) THEN node
    ELSE IF isCallExpressionNamed(sf, node, name) /\ matchesLine(sf, node, line)
    THEN node
    ELSE visitByNameEach(sf, name, line, forEachChild(sf, node), found)
visitByNameEach(sf, name, line, children, found) ==
    IF children = <<>> THEN found
    ELSE visitByNameEach(sf, name, line, Tail(children),
                         visitByName(sf, name, line, Head(children), found))

findNodeByNameAndLine(sf, name, line) ==
    visitByName(sf, name, line, Root, NoNode)

(***************************************************************************)
(* Node locator, by position.                                              *)
(***************************************************************************)
\* the replacement test, were it to accept only a strictly narrower node
moreSpecificStrict(sf, node, result) ==
    result = NoNode \/ getWidth(sf, node) < getWidth(sf, result)

\* !result || node.getWidth(sourceFile) <= result.getWidth(sourceFile)
moreSpecific(sf, node, result) ==
    result = NoNode \/ getWidth(sf, node) <= getWidth(sf, result)

\* the closure visit of findSmallestNodeAtPosition, returning the new value
\* of result
RECURSIVE visitSmallest(_, _, _, _), visitSmallestEach(_, _, _, _)
visitSmallest(sf, position, node, result) ==
    IF position < getStart(sf, node) \/ position >= getNodeEnd(sf, node)
    THEN result
    ELSE LET r == IF moreSpecific(sf, node, result) THEN node ELSE result
         IN visitSmallestEach(sf, position, forEachChild(sf, node), r)
visitSmallestEach(sf, position, children, result) ==
    IF children = <<>> THEN result
    ELSE visitSmallestEach(sf, position, Tail(children),
                           visitSmallest(sf, position, Head(children), result))

findSmallestNodeAtPosition(sf, position) ==
    visitSmallest(sf, position, Root, NoNode)

\* the call rule, were it to test the whole callee expression instead of the
\* callee's name
promotesCallOnCallee(sf, n, position) ==
    isCallExpression(sf, n) /\ spans(sf, expressionOf(sf, n), position)

\* findHoverableAncestor, the call rule: n is a call expression and the
\* position is on its callee identifier or on the member name of its
\* property-access callee
promotesCall(sf, n, position) ==
    IF isCallExpression(sf, n)
    THEN LET expr == expressionOf(sf, n) IN
         IF isIdentifier(sf, expr) THEN spans(sf, expr, position)
         ELSE IF isPropertyAccessExpression(sf, expr)
         THEN spans(sf, nameOf(sf, expr), position)
         ELSE FALSE
    ELSE FALSE

\* findHoverableAncestor, the declaration rules: n is a function, variable,
\* method, class or interface declaration and the position is on its name
promotesDeclaration(sf, n, position) ==
    \/ /\ isFunctionDeclaration(sf, n) /\ nameOf(sf, n) # NoNode
       /\ spans(sf, nameOf(sf, n), position)
    \/ /\ isVariableDeclaration(sf, n) /\ isIdentifier(sf, nameOf(sf, n))
       /\ spans(sf, nameOf(sf, n), position)
    \/ /\ (isMethodDeclaration(sf, n) \/ isMethodSignature(sf, n))
       /\ isIdentifier(sf, nameOf(sf, n))
       /\ spans(sf, nameOf(sf, n), position)
    \/ /\ isClassDeclaration(sf, n) /\ nameOf(sf, n) # NoNode
       /\ spans(sf, nameOf(sf, n), position)
    \/ /\ isInterfaceDeclaration(sf, n) /\ nameOf(sf, n) # NoNode
       /\ spans(sf, nameOf(sf, n), position)

\* the closure visit of findHoverableAncestor: ret is what visit returns and
\* best the new value of bestMatch.  ts.forEachChild stops at the first child
\* for which the callback returns true.
RECURSIVE visitHoverable(_, _, _, _), visitHoverableEach(_, _, _, _)
visitHoverable(sf, position, n, bestMatch) ==
    IF position < getStart(sf, n) \/ position >= getNodeEnd(sf, n)
    THEN [ret |-> FALSE, best |-> bestMatch]
    ELSE LET b1 == IF promotesCall(sf, n, position) THEN n ELSE bestMatch
             b2 == IF promotesDeclaration(sf, n, position) THEN n ELSE b1
         IN [ret |-> TRUE,
             best |-> visitHoverableEach(sf, position, forEachChild(sf, n), b2)]
visitHoverableEach(sf, position, children, bestMatch) ==
    IF children = <<>> THEN bestMatch
    ELSE LET r == visitHoverable(sf, position, Head(children), bestMatch) IN
         IF r.ret THEN r.best
         ELSE visitHoverableEach(sf, position, Tail(children), r.best)

findHoverableAncestor(sf, position) ==
    LET smallestNode == findSmallestNodeAtPosition(sf, position) IN
    IF smallestNode = NoNode THEN NoNode
    ELSE visitHoverable(sf, position, Root, smallestNode).best

\* the bounds validation of findNodeAtPosition (the two early returns): TRUE
\* when neither return is taken.  lineLength runs to the start of the next
\* line, so it counts the line terminator.
boundsOk(sf, line, column) ==
    LET starts == getLineStarts(sf)
        lineCount == Len(starts)
    IN IF line < 1 \/ line > lineCount THEN FALSE
       ELSE LET lineStart == starts[line]
                lineEnd == IF line < lineCount THEN starts[line + 1]
                           ELSE getEnd(sf)
                lineLength == lineEnd - lineStart
            IN ~(column < 1 \/ column > lineLength + 1)

\* findNodeAtPosition: threw is TRUE when the compiler's position conversion
\* raises its Debug Failure, which findNodeAtPosition does not catch
findNodeAtPosition(sf, line, column) ==
    IF ~boundsOk(sf, line, column) THEN [threw |-> FALSE, node |-> NoNode]
    ELSE LET p == getPositionOfLineAndCharacter(sf, line - 1, column - 1) IN
         IF p.threw THEN [threw |-> TRUE, node |-> NoNode]
         ELSE [threw |-> FALSE, node |-> findHoverableAncestor(sf, p.position)]

(***************************************************************************)
(* Type/hover extractor.                                                   *)
(***************************************************************************)
getSymbolKind(sf, node) ==
    IF isFunctionDeclaration(sf, node) THEN "function"
    ELSE IF isArrowFunction(sf, node) THEN "function"
    ELSE IF isFunctionExpression(sf, node) THEN "function"
    ELSE IF isMethodDeclaration(sf, node) THEN "method"
    ELSE IF isMethodSignature(sf, node) THEN "method"
    ELSE IF isVariableDeclaration(sf, node)
    THEN (IF isArrowOrFnExpr(sf, initializerOf(sf, node))
          THEN "function" ELSE "variable")
    ELSE IF isKind(sf, node, "Parameter") THEN "parameter"
    ELSE IF isKind(sf, node, "PropertyDeclaration") THEN "property"
    ELSE IF isKind(sf, node, "PropertySignature") THEN "property"
    ELSE IF isPropertyAccessExpression(sf, node) THEN "property"
    ELSE IF isCallExpression(sf, node) THEN "call"
    ELSE IF isKind(sf, node, "TypeAliasDeclaration") THEN "type"
    ELSE IF isInterfaceDeclaration(sf, node) THEN "interface"
    ELSE IF isClassDeclaration(sf, node) THEN "class"
    ELSE IF isIdentifier(sf, node) THEN "identifier"
    ELSE "unknown"

getNodeName(sf, node) ==
    IF isFunctionDeclaration(sf, node) /\ nameOf(sf, node) # NoNode
    THEN textOf(sf, nameOf(sf, node))
    ELSE IF isVariableDeclaration(sf, node) /\ isIdentifier(sf, nameOf(sf, node))
    THEN textOf(sf, nameOf(sf, node))
    ELSE IF (isMethodDeclaration(sf, node) \/ isMethodSignature(sf, node))
               /\ isIdentifier(sf, nameOf(sf, node))
    THEN textOf(sf, nameOf(sf, node))
    ELSE IF isPropertyAccessExpression(sf, node)
    THEN textOf(sf, nameOf(sf, node))
    ELSE IF isCallExpression(sf, node)
               /\ isIdentifier(sf, expressionOf(sf, node))
    THEN textOf(sf, expressionOf(sf, node))
    ELSE IF isCallExpression(sf, node)
               /\ isPropertyAccessExpression(sf, expressionOf(sf, node))
    THEN textOf(sf, nameOf(sf, expressionOf(sf, node)))
    ELSE IF isKind(sf, node, "Parameter") /\ isIdentifier(sf, nameOf(sf, node))
    THEN textOf(sf, nameOf(sf, node))
    ELSE IF isIdentifier(sf, node) THEN textOf(sf, node)
    ELSE IF isKind(sf, node, "TypeAliasDeclaration")
               \/ isInterfaceDeclaration(sf, node) \/ isClassDeclaration(sf, node)
    THEN (IF nameOf(sf, node) # NoNode THEN textOf(sf, nameOf(sf, node))
          ELSE NoString)
    ELSE NoString

\* checker.getSymbolAtLocation(node): a symbol is known by its name; only a
\* name (identifier or literal property name) resolves to one
getSymbolAtLocation(sf, node) == nodeNameText(sf, node)

\* getDocumentation, were the test for an empty comment left out
getDocumentationUnchecked(sf, symbol) ==
    IF symbol = NoString THEN NoString
    ELSE IF symbol \notin sf.documented THEN ""
    ELSE "doc comment of " \o symbol

\* getDocumentation: undefined without a symbol or without a doc comment
getDocumentation(sf, symbol) ==
    IF symbol = NoString THEN NoString
    ELSE IF symbol \notin sf.documented THEN NoString
    ELSE "doc comment of " \o symbol

\* the checker's renderings, as opaque strings that name what was rendered
signatureToString(what, n) == "signature of " \o what \o " " \o ToString(n)
returnTypeToString(what, n) == "return type of " \o what \o " " \o ToString(n)
typeToString(n) == "type at node " \o ToString(n)

\* the declaration asked for, were a method signature not asked for
signatureDeclarationOfBodies(sf, node) ==
    IF isFunctionDeclaration(sf, node) \/ isMethodDeclaration(sf, node) THEN node
    ELSE IF isVariableDeclaration(sf, node)
    THEN (IF isArrowOrFnExpr(sf, initializerOf(sf, node))
          THEN initializerOf(sf, node) ELSE NoNode)
    ELSE IF isPropertyAssignment(sf, node)
    THEN (IF isArrowOrFnExpr(sf, initializerOf(sf, node))
          THEN initializerOf(sf, node) ELSE NoNode)
    ELSE NoNode

\* the node whose declared signature getHoverInfoImpl asks the checker for
\* (NoNode when no rule applies, so that sig stays undefined)
signatureDeclaration(sf, node) ==
    IF isFunctionDeclaration(sf, node) \/ isMethodDeclaration(sf, node) THEN node
    ELSE IF isVariableDeclaration(sf, node)
    THEN (IF isArrowOrFnExpr(sf, initializerOf(sf, node))
          THEN initializerOf(sf, node) ELSE NoNode)
    ELSE IF isPropertyAssignment(sf, node)
    THEN (IF isArrowOrFnExpr(sf, initializerOf(sf, node))
          THEN initializerOf(sf, node) ELSE NoNode)
    ELSE IF isMethodSignature(sf, node) THEN node
    ELSE NoNode

\* checker.getResolvedSignature(node), checker.getSignatureFromDeclaration(
\* node) ?? undefined: a signature is known by the node it belongs to
getResolvedSignature(sf, node) ==
    IF node \in sf.unresolved THEN NoNode ELSE node
getSignatureFromDeclaration(sf, node) ==
    IF node = NoNode \/ node \in sf.unresolved THEN NoNode ELSE node

HoverResult(signature, returnType, line, column, documentation, kind, name) ==
    [signature |-> signature, returnType |-> returnType, line |-> line,
     column |-> column, documentation |-> documentation, kind |-> kind,
     name |-> name]

getHoverInfoImpl(sf, node, includeDocs) ==
    LET lc == getLineAndCharacterOfPosition(sf, getStart(sf, node))
        kind == getSymbolKind(sf, node)
        name == getNodeName(sf, node)
        symbol ==
            IF isCallExpression(sf, node)
            THEN (IF isPropertyAccessExpression(sf, expressionOf(sf, node))
                  THEN getSymbolAtLocation(sf, nameOf(sf, expressionOf(sf, node)))
                  ELSE getSymbolAtLocation(sf, expressionOf(sf, node)))
            ELSE (IF nameOf(sf, node) # NoNode
                  THEN getSymbolAtLocation(sf, nameOf(sf, node))
                  ELSE getSymbolAtLocation(sf, node))
        documentation == IF includeDocs THEN getDocumentation(sf, symbol)
                         ELSE NoString
        callSig == getResolvedSignature(sf, node)
        sig == getSignatureFromDeclaration(sf, signatureDeclaration(sf, node))
        targetNode == IF nameOf(sf, node) # NoNode /\ isIdentifier(sf, nameOf(sf, node))
                      THEN nameOf(sf, node) ELSE node
    IN IF isCallExpression(sf, node)
       THEN (IF callSig # NoNode
             THEN HoverResult(signatureToString("call", callSig),
                              returnTypeToString("call", callSig),
                              lc.line + 1, lc.character + 1, documentation, kind,
                              name)
             ELSE HoverResult(typeToString(node), NoString,
                              lc.line + 1, lc.character + 1, documentation, kind,
                              name))
       ELSE IF sig # NoNode
       THEN HoverResult(signatureToString("declaration", sig),
                        returnTypeToString("declaration", sig),
                        lc.line + 1, lc.character + 1, documentation, kind, name)
       ELSE HoverResult(typeToString(targetNode), NoString,
                        lc.line + 1, lc.character + 1, documentation, kind, name)

(***************************************************************************)
(* Thrown values.  An Error carries a message (a sequence of parts); the   *)
(* compiler can also throw a value that is no Error instance               *)
(* (ts.OperationCanceledException), which has no message.                  *)
(***************************************************************************)
NoMessage == <<NoString>>
Err(name, message) == [isError |-> TRUE, name |-> name, message |-> message]
DebugFailure == Err("Error", <<"Debug Failure. False expression.">>)
NonError == [isError |-> FALSE, name |-> NoString, message |-> NoMessage]

\* what the checker does while getHoverInfoImpl runs
Thrown == {"none", "Error", "NonError"}
thrownValue(thrown) ==
    IF thrown = "Error" THEN DebugFailure
    ELSE NonError

\* errors.ts getSuggestions: hints when the cause is a debug failure
getSuggestions(cause) ==
    IF cause = DebugFailure
    THEN <<"\n\nPossible fixes:\n  - Try a different position\n  - Check for syntax errors\n  - Ensure tsconfig includes this file">>
    ELSE <<>>

TypeScriptInternalError(file, line, column, operation, cause) ==
    [isError |-> TRUE, name |-> "TypeScriptInternalError",
     message |-> <<"TypeScript error while ", operation, " at ", file, ":",
                   ToString(line), ":", ToString(column), ": ">>
                 \o cause.message \o getSuggestions(cause),
     file |-> file, line |-> line, column |-> column,
     operation |-> operation, cause |-> cause]

Return(value) == [tag |-> "return", value |-> value]
Throw(error) == [tag |-> "throw", error |-> error]

\* getHoverInfo, were it to report the compiler's 0-based line and character
getHoverInfoZeroBased(sf, node, includeDocs, thrown) ==
    LET lc == getLineAndCharacterOfPosition(sf, getStart(sf, node)) IN
    IF thrown = "none" THEN Return(getHoverInfoImpl(sf, node, includeDocs))
    ELSE LET error == thrownValue(thrown) IN
         IF error.isError
         THEN Throw(TypeScriptInternalError(sf.fileName, lc.line, lc.character,
                                            "getting type information", error))
         ELSE Throw(error)

\* getHoverInfo: the line and column of the node's start are taken before the
\* try; an Error caught is wrapped, any other thrown value is re-thrown as is
getHoverInfo(sf, node, includeDocs, thrown) ==
    LET lc == getLineAndCharacterOfPosition(sf, getStart(sf, node)) IN
    IF thrown = "none" THEN Return(getHoverInfoImpl(sf, node, includeDocs))
    ELSE LET error == thrownValue(thrown) IN
         IF error.isError
         THEN Throw(TypeScriptInternalError(sf.fileName, lc.line + 1,
                        lc.character + 1, "getting type information", error))
         ELSE Throw(error)

(***************************************************************************)
(* Type information (src/core/type-info.ts).                               *)
(***************************************************************************)
InferredTypeResult(signature, returnType, line) ==
    [signature |-> signature, returnType |-> returnType, line |-> line]

\* getTypeInfo, were its fallback to take the type at the node and never at
\* the node's name
getTypeInfoAtNode(sf, node) ==
    LET line == getLineNumber(sf, node)
        callSig == getResolvedSignature(sf, node)
        decl == IF isFunctionDeclaration(sf, node) \/ isMethodDeclaration(sf, node)
                THEN node
                ELSE IF isVariableDeclaration(sf, node)
                THEN (IF isArrowOrFnExpr(sf, initializerOf(sf, node))
                      THEN initializerOf(sf, node) ELSE NoNode)
                ELSE IF isPropertyAssignment(sf, node)
                THEN (IF isArrowOrFnExpr(sf, initializerOf(sf, node))
                      THEN initializerOf(sf, node) ELSE NoNode)
                ELSE IF isMethodSignature(sf, node) THEN node
                ELSE NoNode
        sig == getSignatureFromDeclaration(sf, decl)
    IN IF isCallExpression(sf, node)
       THEN (IF callSig # NoNode
             THEN InferredTypeResult(signatureToString("call", callSig),
                                     returnTypeToString("call", callSig), line)
             ELSE InferredTypeResult(typeToString(node), NoString, line))
       ELSE IF sig # NoNode
       THEN InferredTypeResult(signatureToString("declaration", sig),
                               returnTypeToString("declaration", sig), line)
       ELSE InferredTypeResult(typeToString(node), NoString, line)

\* getTypeInfo(program, node): the source file is the node's own
getTypeInfo(sf, node) ==
    LET line == getLineNumber(sf, node)
        callSig == getResolvedSignature(sf, node)
        decl == IF isFunctionDeclaration(sf, node) \/ isMethodDeclaration(sf, node)
                THEN node
                ELSE IF isVariableDeclaration(sf, node)
                THEN (IF isArrowOrFnExpr(sf, initializerOf(sf, node))
                      THEN initializerOf(sf, node) ELSE NoNode)
                ELSE IF isPropertyAssignment(sf, node)
                THEN (IF isArrowOrFnExpr(sf, initializerOf(sf, node))
                      THEN initializerOf(sf, node) ELSE NoNode)
                ELSE IF isMethodSignature(sf, node) THEN node
                ELSE NoNode
        sig == getSignatureFromDeclaration(sf, decl)
        nameNode == IF nameOf(sf, node) # NoNode /\ isIdentifier(sf, nameOf(sf, node))
                    THEN nameOf(sf, node) ELSE node
    IN IF isCallExpression(sf, node)
       THEN (IF callSig # NoNode
             THEN InferredTypeResult(signatureToString("call", callSig),
                                     returnTypeToString("call", callSig), line)
             ELSE InferredTypeResult(typeToString(node), NoString, line))
       ELSE IF sig # NoNode
       THEN InferredTypeResult(signatureToString("declaration", sig),
                               returnTypeToString("declaration", sig), line)
       ELSE InferredTypeResult(typeToString(nameNode), NoString, line)

(***************************************************************************)
(* The file system and the program loader.  A call names its file relative *)
(* to the working directory; project is the state of the project           *)
(* configuration that loadProgram finds for it: "none" (no tsconfig.json   *)
(* above the file), "ok" (one that includes the file), "excludes" (one     *)
(* whose file set lacks the file) or "malformed" (one that cannot be read  *)
(* or parsed).                                                             *)
(***************************************************************************)
Files == {"decls.ts", "calls.ts", "object.ts", "missing.ts"}
Projects == {"none", "ok", "excludes", "malformed"}

\* path.resolve(process.cwd(), file)
resolve(file) == "/cwd/" \o file

\* the paths of the files on disk
onDisk == {sf.fileName : sf \in SourceFiles}

\* existsSync, were the existence check skipped
existsSyncSkipped(path) == TRUE

\* fs.existsSync
existsSync(path) == path \in onDisk

\* What a caller keeps of an earlier lookup to compare a later one with: the
\* lookup, its outcome, and whether other calls have completed since.  The
\* program itself keeps nothing from one call to the next (src/index.ts has
\* no module-level state): no operation reads kept.
VARIABLE kept
NoKept == [call |-> [op |-> "none"]]

\* The home directory and the agent host, as the installer finds them: whether
\* ~/.claude exists, the entry of the host's registry for the server, whether
\* settings.json has a prinfer entry, whether ~/.claude/skills exists, and the
\* content of the guidance document skills/prefer-infer.md.
VARIABLE env

\* loadProgram, were the program of the last kept lookup reused for the
\* calls that follow it
loadProgramCached(entryFileAbs, project) ==
    LET file == IF kept = NoKept THEN entryFileAbs
                ELSE "/cwd/" \o kept.call.file
        proj == IF kept = NoKept THEN project ELSE kept.call.project
    IN IF proj = "none" THEN Return([fileNames |-> {file} \cap onDisk])
       ELSE IF proj = "malformed"
       THEN Throw(Err("Error", <<"tsconfig.json diagnostic">>))
       ELSE IF proj = "excludes"
       THEN Return([fileNames |-> onDisk \ {file}])
       ELSE Return([fileNames |-> onDisk])

\* loadProgram: the program is known by the names of its source files (a
\* root file that is not on disk yields no source file).  Without a project
\* configuration the program is built from the entry file alone; a
\* configuration that cannot be read or parsed raises its diagnostic; else
\* the program is built from the configuration's file set, whether or not
\* the entry file is in it.
loadProgram(entryFileAbs, project) ==
    IF project = "none" THEN Return([fileNames |-> {entryFileAbs} \cap onDisk])
    ELSE IF project = "malformed"
    THEN Throw(Err("Error", <<"tsconfig.json diagnostic">>))
    ELSE IF project = "excludes"
    THEN Return([fileNames |-> onDisk \ {entryFileAbs}])
    ELSE Return([fileNames |-> onDisk])

\* undefined, as program.getSourceFile returns it
NoSourceFile == [fileName |-> NoString]
\* getSourceFile, were a file that the program lacks read from disk instead
getSourceFileFromDisk(program, fileName) ==
    IF fileName \in onDisk
    THEN CHOOSE sf \in SourceFiles : sf.fileName = fileName
    ELSE NoSourceFile

\* program.getSourceFile(fileName)
getSourceFile(program, fileName) ==
    IF fileName \in program.fileNames
    THEN CHOOSE sf \in SourceFiles : sf.fileName = fileName
    ELSE NoSourceFile

(***************************************************************************)
(* Public entry points (src/index.ts).  Each yields the outcome of the     *)
(* call (a returned value or a thrown one) and the trace of the steps the  *)
(* call took, in order.                                                    *)
(***************************************************************************)
Step(outcome, trace) == [outcome |-> outcome, trace |-> trace]

FileNotFound(entryFileAbs) == Err("Error", <<"File not found: ", entryFileAbs>>)
CouldNotLoad(entryFileAbs) ==
    Err("Error", <<"Could not load source file into the program (check tsconfig include/exclude): ",
                   entryFileAbs>>)

hoverByPositionImpl(file, line, column, project, include_docs, thrown) ==
    LET entryFileAbs == resolve(file) IN
    IF ~existsSync(entryFileAbs)
    THEN Step(Throw(FileNotFound(entryFileAbs)), <<"existsSync">>)
    ELSE LET program == loadProgram(entryFileAbs, project) IN
    IF program.tag = "throw"
    THEN Step(program, <<"existsSync", "loadProgram">>)
    ELSE LET sourceFile == getSourceFile(program.value, entryFileAbs) IN
    IF sourceFile = NoSourceFile
    THEN Step(Throw(CouldNotLoad(entryFileAbs)), <<"existsSync", "loadProgram">>)
    ELSE LET found == findNodeAtPosition(sourceFile, line, column) IN
    IF found.threw
    THEN Step(Throw(DebugFailure),
              <<"existsSync", "loadProgram", "findNodeAtPosition">>)
    ELSE IF found.node = NoNode
    THEN Step(Throw(Err("Error", <<"No symbol found at ", entryFileAbs, ":",
                                   ToString(line), ":", ToString(column)>>)),
              <<"existsSync", "loadProgram", "findNodeAtPosition">>)
    ELSE Step(getHoverInfo(sourceFile, found.node, include_docs, thrown),
              <<"existsSync", "loadProgram", "findNodeAtPosition", "getHoverInfo">>)

hoverByNameImpl(file, name, line, project, include_docs, thrown) ==
    LET entryFileAbs == resolve(file) IN
    IF ~existsSync(entryFileAbs)
    THEN Step(Throw(FileNotFound(entryFileAbs)), <<"existsSync">>)
    ELSE LET program == loadProgram(entryFileAbs, project) IN
    IF program.tag = "throw"
    THEN Step(program, <<"existsSync", "loadProgram">>)
    ELSE LET sourceFile == getSourceFile(program.value, entryFileAbs) IN
    IF sourceFile = NoSourceFile
    THEN Step(Throw(CouldNotLoad(entryFileAbs)), <<"existsSync", "loadProgram">>)
    ELSE LET node == findNodeByNameAndLine(sourceFile, name, line) IN
    IF node = NoNode
    THEN LET lineInfo == IF line # Undefined /\ line # 0
                         THEN <<" at line ", ToString(line)>> ELSE <<>>
         IN Step(Throw(Err("Error", <<"No symbol named \"", name, "\"">>
                                     \o lineInfo \o <<" found in ", file>>)),
                 <<"existsSync", "loadProgram", "findNodeByNameAndLine">>)
    ELSE Step(getHoverInfo(sourceFile, node, include_docs, thrown),
              <<"existsSync", "loadProgram", "findNodeByNameAndLine", "getHoverInfo">>)

\* a BatchHoverItem: result is NoResult when the item has none, error is
\* NoMessage when the item has none
NoResult == [signature |-> NoString]
Item(position, result, error) ==
    [position |-> position, result |-> result, error |-> error]

\* the loop body, were the program loaded again for every position
batchItemReloads(sourceFile, pos, include_docs, thrown) ==
    LET found == findNodeAtPosition(sourceFile, pos.line, pos.column) IN
    IF found.threw
    THEN Step(Item(pos, NoResult, DebugFailure.message),
              <<"loadProgram", "findNodeAtPosition">>)
    ELSE IF found.node = NoNode
    THEN Step(Item(pos, NoResult,
                   <<"No symbol at ", ToString(pos.line), ":", ToString(pos.column)>>),
              <<"loadProgram", "findNodeAtPosition">>)
    ELSE LET got == getHoverInfo(sourceFile, found.node, include_docs, thrown) IN
         IF got.tag = "return"
         THEN Step(Item(pos, got.value, NoMessage),
                   <<"loadProgram", "findNodeAtPosition", "getHoverInfo">>)
         ELSE Step(Item(pos, NoResult, got.error.message),
                   <<"loadProgram", "findNodeAtPosition", "getHoverInfo">>)

\* the body of batchHover's loop for one position: the item it pushes and
\* the steps it takes
batchItem(sourceFile, pos, include_docs, thrown) ==
    LET found == findNodeAtPosition(sourceFile, pos.line, pos.column) IN
    IF found.threw
    THEN Step(Item(pos, NoResult, DebugFailure.message), <<"findNodeAtPosition">>)
    ELSE IF found.node = NoNode
    THEN Step(Item(pos, NoResult,
                   <<"No symbol at ", ToString(pos.line), ":", ToString(pos.column)>>),
              <<"findNodeAtPosition">>)
    ELSE LET got == getHoverInfo(sourceFile, found.node, include_docs, thrown) IN
         IF got.tag = "return"
         THEN Step(Item(pos, got.value, NoMessage),
                   <<"findNodeAtPosition", "getHoverInfo">>)
         ELSE Step(Item(pos, NoResult, got.error.message),
                   <<"findNodeAtPosition", "getHoverInfo">>)

\* the loop, were a failing position to end it
RECURSIVE batchLoopAborts(_, _, _, _, _, _, _)
batchLoopAborts(sourceFile, positions, include_docs, thrown, i, items, trace) ==
    IF i > Len(positions) THEN [items |-> items, trace |-> trace]
    ELSE LET one == batchItem(sourceFile, positions[i], include_docs, thrown[i])
         IN IF one.outcome.result = NoResult
            THEN [items |-> items, trace |-> trace \o one.trace]
            ELSE batchLoopAborts(sourceFile, positions, include_docs, thrown,
                                 i + 1, Append(items, one.outcome),
                                 trace \o one.trace)

\* batchHover's loop over positions[i..]; thrown[i] is what the checker does
\* for the i-th position
RECURSIVE batchLoop(_, _, _, _, _, _, _)
batchLoop(sourceFile, positions, include_docs, thrown, i, items, trace) ==
    IF i > Len(positions) THEN [items |-> items, trace |-> trace]
    ELSE LET one == batchItem(sourceFile, positions[i], include_docs, thrown[i])
         IN batchLoop(sourceFile, positions, include_docs, thrown, i + 1,
                      Append(items, one.outcome), trace \o one.trace)

truthy(items, field, none) ==
    Len(SelectSeq(items, LAMBDA it : it[field] # none))

batchHover(file, positions, project, include_docs, thrown) ==
    LET entryFileAbs == resolve(file) IN
    IF ~existsSync(entryFileAbs)
    THEN Step(Throw(FileNotFound(entryFileAbs)), <<"existsSync">>)
    ELSE LET program == loadProgram(entryFileAbs, project) IN
    IF program.tag = "throw"
    THEN Step(program, <<"existsSync", "loadProgram">>)
    ELSE LET sourceFile == getSourceFile(program.value, entryFileAbs) IN
    IF sourceFile = NoSourceFile
    THEN Step(Throw(CouldNotLoad(entryFileAbs)), <<"existsSync", "loadProgram">>)
    ELSE LET done == batchLoop(sourceFile, positions, include_docs, thrown, 1,
                               <<>>, <<"existsSync", "loadProgram">>)
         IN Step(Return([items |-> done.items,
                         successCount |-> truthy(done.items, "result", NoResult),
                         errorCount |-> truthy(done.items, "error", NoMessage)]),
                 done.trace)

(***************************************************************************)
(* The tool-protocol server (src/mcp.ts).  A tool handler returns a        *)
(* payload: one text content block, and isError when the lookup raised     *)
(* (a payload without the isError property has isError FALSE here).        *)
(* Texts are sequences of parts, as messages are.                          *)
(***************************************************************************)
\* JavaScript truthiness of an optional string
truthyString(x) == x # NoString /\ x # ""

\* formatError: the message of what was caught (undefined for a value that
\* has none), and that of its cause when the cause is an Error
formatError(error) ==
    <<"Error: ">>
    \o (IF error.isError THEN error.message ELSE <<"undefined">>)
    \o (IF error.isError /\ error.name = "TypeScriptInternalError"
        THEN <<"\n\nOriginal: ">> \o error.cause.message
        ELSE <<>>)

\* the text of a HoverResult in the hover and hoverByName handlers
renderResult(result) ==
    <<"Type: ", result.signature>>
    \o (IF truthyString(result.returnType)
        THEN <<"\nReturns: ", result.returnType>> ELSE <<>>)
    \o (IF truthyString(result.name) THEN <<"\nName: ", result.name>> ELSE <<>>)
    \o <<"\nKind: ", result.kind>>
    \o <<"\nPosition: ", ToString(result.line), ":", ToString(result.column)>>
    \o (IF truthyString(result.documentation)
        THEN <<"\nDocumentation: ", result.documentation>> ELSE <<>>)

\* the text of one item in the batch_hover handler
renderItem(item) ==
    <<"\n--- ", ToString(item.position.line), ":",
      ToString(item.position.column), " ---\n">>
    \o (IF item.error # NoMessage /\ item.error # <<>>
        THEN <<"Error: ">> \o item.error \o <<"\n">>
        ELSE IF item.result # NoResult
        THEN <<"Type: ", item.result.signature, "\n">>
             \o (IF truthyString(item.result.returnType)
                 THEN <<"Returns: ", item.result.returnType, "\n">> ELSE <<>>)
             \o (IF truthyString(item.result.name)
                 THEN <<"Name: ", item.result.name, "\n">> ELSE <<>>)
             \o <<"Kind: ", item.result.kind, "\n">>
             \o (IF truthyString(item.result.documentation)
                 THEN <<"Documentation: ", item.result.documentation, "\n">>
                 ELSE <<>>)
        ELSE <<>>)
RECURSIVE renderItems(_)
renderItems(items) ==
    IF items = <<>> THEN <<>>
    ELSE renderItem(Head(items)) \o renderItems(Tail(items))

Payload(text, isError) ==
    [content |-> <<[type |-> "text", text |-> text]>>, isError |-> isError]

\* what a handler returns, were it to pass on what is not an Error
respondRethrows(step) ==
    IF step.outcome.tag = "return"
    THEN Step(Return(Payload(renderResult(step.outcome.value), FALSE)),
              step.trace)
    ELSE IF step.outcome.error.isError
    THEN Step(Return(Payload(formatError(step.outcome.error), TRUE)),
              step.trace)
    ELSE step

\* what the hover and hoverByName handlers return: the text of the result,
\* or that of what was caught, marked as an error
respond(step) ==
    IF step.outcome.tag = "return"
    THEN Step(Return(Payload(renderResult(step.outcome.value), FALSE)),
              step.trace)
    ELSE Step(Return(Payload(formatError(step.outcome.error), TRUE)),
              step.trace)

\* what the batch_hover handler returns
respondBatch(step) ==
    IF step.outcome.tag = "return"
    THEN Step(Return(Payload(
                  <<"Batch hover results: ",
                    ToString(step.outcome.value.successCount), " succeeded, ",
                    ToString(step.outcome.value.errorCount), " failed\n">>
                  \o renderItems(step.outcome.value.items), FALSE)),
              step.trace)
    ELSE Step(Return(Payload(formatError(step.outcome.error), TRUE)),
              step.trace)

\* the handler of the hover tool
hoverTool(file, line, column, include_docs, project, thrown) ==
    respond(hoverByPositionImpl(file, line, column, project, include_docs,
                                thrown))

\* the handler of the hoverByName tool
hoverByNameTool(file, name, line, include_docs, project, thrown) ==
    respond(hoverByNameImpl(file, name, line, project, include_docs, thrown))

\* the handler of the batch_hover tool
batchHoverTool(file, positions, include_docs, project, thrown) ==
    respondBatch(batchHover(file, positions, project, include_docs, thrown))

(***************************************************************************)
(* The state machine.  The program keeps no state between calls: a state   *)
(* holds the call in progress (its inputs, including what the file system  *)
(* and the checker do during it), its outcome and the steps it took.       *)
(* pc = "idle": no call in progress; pc = "done": the call has completed   *)
(* and its outcome is with the caller.                                     *)
(***************************************************************************)
VARIABLES pc, call, outcome, trace
vars == <<pc, call, outcome, trace, kept, env>>

Lines == 0..MaxLine
Positions == 0..MaxPosition
Columns == 0..MaxColumn
LineHints == {Undefined} \cup Lines
Names == {"f", "v", "g", "C", "m", "s", "I", "p", "o", "h", "j", "a", "u",
          "w", "y", "nonExistent"}
\* the positions a batch is made of: outside every file (line 0), in leading
\* trivia or on the first token (1:1), on a name or past a short line (2:7),
\* one past the line terminator of calls.ts line 2 (2:8)
BatchPositions == {[line |-> 0, column |-> 1], [line |-> 1, column |-> 1],
                   [line |-> 2, column |-> 7], [line |-> 2, column |-> 8]}
SeqsUpTo(S, n) == UNION {[1..k -> S] : k \in 0..n}

\* no ~/.claude; ~/.claude as the agent host creates it
NoHome == [claudeDir |-> FALSE, registry |-> "absent", settings |-> "absent",
           skillsDir |-> FALSE, skillFile |-> "absent"]
FreshHome == [NoHome EXCEPT !.claudeDir = TRUE]

NoCall == [op |-> "none"]
NoOutcome == [tag |-> "none"]

Init ==
    /\ pc = "idle"
    /\ call = NoCall
    /\ outcome = NoOutcome
    /\ trace = <<>>
    /\ kept = NoKept
    /\ env = FreshHome

\* hover(file, line, column, options)
HoverByPosition ==
    /\ pc = "idle"
    /\ \E file \in Files, line \in Lines, column \in Columns,
          project \in Projects, include_docs \in BOOLEAN, thrown \in Thrown :
        LET step == hoverByPositionImpl(file, line, column, project,
                                        include_docs, thrown)
        IN /\ call' = [op |-> "hoverByPosition", file |-> file, line |-> line,
                       column |-> column, project |-> project,
                       include_docs |-> include_docs, thrown |-> thrown]
           /\ outcome' = step.outcome
           /\ trace' = step.trace
    /\ pc' = "done"
    /\ UNCHANGED <<kept, env>>

\* hover(file, name, options)
HoverByName ==
    /\ pc = "idle"
    /\ \E file \in Files, name \in Names, line \in LineHints,
          project \in Projects, include_docs \in BOOLEAN, thrown \in Thrown :
        LET step == hoverByNameImpl(file, name, line, project,
                                    include_docs, thrown)
        IN /\ call' = [op |-> "hoverByName", file |-> file, name |-> name,
                       line |-> line, project |-> project,
                       include_docs |-> include_docs, thrown |-> thrown]
           /\ outcome' = step.outcome
           /\ trace' = step.trace
    /\ pc' = "done"
    /\ UNCHANGED <<kept, env>>

\* batchHover(file, positions, options)
BatchHover ==
    /\ pc = "idle"
    /\ \E file \in Files, positions \in SeqsUpTo(BatchPositions, MaxBatch),
          project \in Projects, include_docs \in BOOLEAN :
        \E thrown \in [1..Len(positions) -> Thrown] :
            LET step == batchHover(file, positions, project, include_docs,
                                   thrown)
            IN /\ call' = [op |-> "batchHover", file |-> file,
                           positions |-> positions, project |-> project,
                           include_docs |-> include_docs, thrown |-> thrown]
               /\ outcome' = step.outcome
               /\ trace' = step.trace
    /\ pc' = "done"
    /\ UNCHANGED <<kept, env>>

\* the exported getTypeInfo(program, node); the checker may throw as it may
\* in getHoverInfo, and nothing here catches what it throws
GetTypeInfo ==
    /\ pc = "idle"
    /\ \E sf \in SourceFiles, thrown \in Thrown :
        \E node \in Nodes(sf) :
            /\ call' = [op |-> "getTypeInfo", file |-> sf.fileName,
                        node |-> node, thrown |-> thrown]
            /\ outcome' = IF thrown = "none" THEN Return(getTypeInfo(sf, node))
                          ELSE Throw(thrownValue(thrown))
            /\ trace' = <<"getTypeInfo">>
    /\ pc' = "done"
    /\ UNCHANGED <<kept, env>>

\* the exported findNodeAtPosition(sourceFile, line, column)
FindNodeAtPosition ==
    /\ pc = "idle"
    /\ \E sf \in SourceFiles, line \in Lines, column \in Columns :
        LET found == findNodeAtPosition(sf, line, column)
        IN /\ call' = [op |-> "findNodeAtPosition", file |-> sf.fileName,
                       line |-> line, column |-> column]
           /\ outcome' = IF found.threw THEN Throw(DebugFailure)
                         ELSE Return(found.node)
           /\ trace' = <<"findNodeAtPosition">>
    /\ pc' = "done"
    /\ UNCHANGED <<kept, env>>

\* the exported findSmallestNodeAtPosition(sourceFile, position)
FindSmallestNodeAtPosition ==
    /\ pc = "idle"
    /\ \E sf \in SourceFiles, position \in Positions :
        /\ position <= getEnd(sf)
        /\ call' = [op |-> "findSmallestNodeAtPosition", file |-> sf.fileName,
                    position |-> position]
        /\ outcome' = Return(findSmallestNodeAtPosition(sf, position))
        /\ trace' = <<"findSmallestNodeAtPosition">>
    /\ pc' = "done"
    /\ UNCHANGED <<kept, env>>

\* the exported findNodeByNameAndLine(sourceFile, name, line)
FindNodeByNameAndLine ==
    /\ pc = "idle"
    /\ \E sf \in SourceFiles, name \in Names, line \in LineHints :
        /\ call' = [op |-> "findNodeByNameAndLine", file |-> sf.fileName,
                    name |-> name, line |-> line]
        /\ outcome' = Return(findNodeByNameAndLine(sf, name, line))
        /\ trace' = <<"findNodeByNameAndLine">>
    /\ pc' = "done"
    /\ UNCHANGED <<kept, env>>

\* the exported getHoverInfo(program, node, sourceFile, includeDocs)
GetHoverInfo ==
    /\ pc = "idle"
    /\ \E sf \in SourceFiles, include_docs \in BOOLEAN, thrown \in Thrown :
        \E node \in Nodes(sf) :
            /\ call' = [op |-> "getHoverInfo", file |-> sf.fileName,
                        node |-> node, include_docs |-> include_docs,
                        thrown |-> thrown]
            /\ outcome' = getHoverInfo(sf, node, include_docs, thrown)
            /\ trace' = <<"getHoverInfo">>
    /\ pc' = "done"
    /\ UNCHANGED <<kept, env>>

\* the exported loadProgram(entryFileAbs, project)
LoadProgram ==
    /\ pc = "idle"
    /\ \E file \in Files, project \in Projects :
        /\ call' = [op |-> "loadProgram", file |-> file, project |-> project]
        /\ outcome' = loadProgram(resolve(file), project)
        /\ trace' = <<"loadProgram">>
    /\ pc' = "done"
    /\ UNCHANGED <<kept, env>>

\* what the tools are invoked with
ToolNames == {"f", "a", "nonExistent"}
ToolLineHints == {Undefined, 1, 5}

\* an invocation of the hover tool
HoverTool ==
    /\ pc = "idle"
    /\ \E file \in Files, pos \in BatchPositions, project \in Projects,
          include_docs \in BOOLEAN, thrown \in Thrown :
        LET step == hoverTool(file, pos.line, pos.column, include_docs,
                              project, thrown)
        IN /\ call' = [op |-> "hoverTool", file |-> file, line |-> pos.line,
                       column |-> pos.column, project |-> project,
                       include_docs |-> include_docs, thrown |-> thrown]
           /\ outcome' = step.outcome
           /\ trace' = step.trace
    /\ pc' = "done"
    /\ UNCHANGED <<kept, env>>

\* an invocation of the hoverByName tool
HoverByNameTool ==
    /\ pc = "idle"
    /\ \E file \in Files, name \in ToolNames, line \in ToolLineHints,
          project \in Projects, include_docs \in BOOLEAN, thrown \in Thrown :
        LET step == hoverByNameTool(file, name, line, include_docs, project,
                                    thrown)
        IN /\ call' = [op |-> "hoverByNameTool", file |-> file, name |-> name,
                       line |-> line, project |-> project,
                       include_docs |-> include_docs, thrown |-> thrown]
           /\ outcome' = step.outcome
           /\ trace' = step.trace
    /\ pc' = "done"
    /\ UNCHANGED <<kept, env>>

\* an invocation of the batch_hover tool; the checker does the same for
\* every position of the batch
BatchHoverTool ==
    /\ pc = "idle"
    /\ \E file \in Files, positions \in SeqsUpTo(BatchPositions, MaxBatch),
          project \in Projects, include_docs \in BOOLEAN, thrown \in Thrown :
        LET step == batchHoverTool(file, positions, include_docs, project,
                                   [i \in 1..Len(positions) |-> thrown])
        IN /\ call' = [op |-> "batchHoverTool", file |-> file,
                       positions |-> positions, project |-> project,
                       include_docs |-> include_docs,
                       thrown |-> [i \in 1..Len(positions) |-> thrown]]
           /\ outcome' = step.outcome
           /\ trace' = step.trace
    /\ pc' = "done"
    /\ UNCHANGED <<kept, env>>

\* the lookups a caller keeps the outcome of
Probes ==
    {[op |-> "hoverByPosition", file |-> "decls.ts", line |-> 1, column |-> 19,
      project |-> "none", include_docs |-> FALSE, thrown |-> "none"],
     [op |-> "hoverByName", file |-> "calls.ts", name |-> "j", line |-> Undefined,
      project |-> "none", include_docs |-> FALSE, thrown |-> "none"]}

\* the caller takes the outcome; the program keeps nothing of the call
Finish ==
    /\ pc = "done"
    /\ pc' = "idle"
    /\ call' = NoCall
    /\ outcome' = NoOutcome
    /\ trace' = <<>>
    /\ UNCHANGED <<kept, env>>

Next ==
    \/ HoverByPosition
    \/ HoverByName
    \/ BatchHover
    \/ FindNodeAtPosition
    \/ FindSmallestNodeAtPosition
    \/ FindNodeByNameAndLine
    \/ GetHoverInfo
    \/ GetTypeInfo
    \/ LoadProgram
    \/ Finish

Spec == Init /\ [][Next]_vars

\* the tool server: the agent host invokes the tools
NextTools ==
    \/ HoverTool
    \/ HoverByNameTool
    \/ BatchHoverTool
    \/ Finish

SpecTools == Init /\ [][NextTools]_vars

\* a caller that keeps the outcome of a lookup, makes other calls, and
\* repeats the lookup
FinishKeeping ==
    /\ pc = "done"
    /\ pc' = "idle"
    /\ call' = NoCall
    /\ outcome' = NoOutcome
    /\ trace' = <<>>
    /\ kept' = IF call \in Probes
               THEN [call |-> call, outcome |-> outcome, between |-> FALSE]
               ELSE IF kept = NoKept THEN kept
               ELSE [kept EXCEPT !.between = TRUE]
    /\ UNCHANGED env

NextRepeat ==
    \/ HoverByPosition
    \/ HoverByName
    \/ BatchHover
    \/ FinishKeeping

SpecRepeat == Init /\ [][NextRepeat]_vars

(***************************************************************************)
(* The command line (src/cli.ts).  An argument is a sequence of pieces of   *)
(* text, each one of: a decimal digit, a word of ASCII letters, "_", ":",   *)
(* a line terminator, or some other text (".", "decls.ts", "--docs").       *)
(***************************************************************************)
MaxArgLen == 5

Digit == {ToString(n) : n \in 0..9}
Words == Names \cup {"setup"}
\* \d+
digits(s) == s # <<>> /\ \A k \in DOMAIN s : s[k] \in Digit

\* [a-zA-Z_][a-zA-Z0-9_]*, were the first character free to be a digit
identifierAnyStart(s) ==
    /\ s # <<>>
    /\ \A k \in DOMAIN s : s[k] \in Words \cup Digit \cup {"_"}

\* [a-zA-Z_][a-zA-Z0-9_]*
identifier(s) ==
    /\ s # <<>>
    /\ s[1] \in Words \cup {"_"}
    /\ \A k \in DOMAIN s : s[k] \in Words \cup Digit \cup {"_"}

\* .+ : one or more characters, none a line terminator
anything(s) == s # <<>> /\ \A k \in DOMAIN s : s[k] # "\n"

\* arg.match: null
NoMatch == <<>>

\* a group of the pattern: (\d+) or ([a-zA-Z_][a-zA-Z0-9_]*)
group(pattern, s) == IF pattern = "\\d+" THEN digits(s) ELSE identifier(s)

\* arg.match(/^(.+):(second):(third)$/); the first group is greedy
match3(arg, second, third) ==
    LET n == Len(arg)
        found == {e \in (1..n) \X (1..n) :
                    /\ e[1] < e[2]
                    /\ arg[e[1]] = ":" /\ arg[e[2]] = ":"
                    /\ anything(SubSeq(arg, 1, e[1] - 1))
                    /\ group(second, SubSeq(arg, e[1] + 1, e[2] - 1))
                    /\ group(third, SubSeq(arg, e[2] + 1, n))}
    IN IF found = {} THEN NoMatch
       ELSE LET e == CHOOSE e \in found :
                        \A d \in found : d[1] <= e[1] /\ d[2] <= e[2]
            IN <<SubSeq(arg, 1, e[1] - 1), SubSeq(arg, e[1] + 1, e[2] - 1),
                 SubSeq(arg, e[2] + 1, n)>>

\* arg.match(/^(.+):(second)$/)
match2(arg, second) ==
    LET n == Len(arg)
        found == {i \in 1..n : /\ arg[i] = ":"
                               /\ anything(SubSeq(arg, 1, i - 1))
                               /\ group(second, SubSeq(arg, i + 1, n))}
    IN IF found = {} THEN NoMatch
       ELSE LET i == CHOOSE i \in found : \A d \in found : d <= i
            IN <<SubSeq(arg, 1, i - 1), SubSeq(arg, i + 1, n)>>

\* the text of a group
RECURSIVE join(_)
join(s) == IF s = <<>> THEN "" ELSE Head(s) \o join(Tail(s))

\* Number.parseInt(group, 10) of a group of digits
RECURSIVE parseInt(_)
parseInt(s) ==
    IF s = <<>> THEN 0
    ELSE 10 * parseInt(SubSeq(s, 1, Len(s) - 1))
         + (CHOOSE n \in 0..9 : ToString(n) = s[Len(s)])

ParsedNull == [mode |-> "null"]

parsePositionArg(arg) ==
    LET posMatch == match3(arg, "\\d+", "\\d+")
        nameLineMatch == match3(arg, "[a-zA-Z_][a-zA-Z0-9_]*", "\\d+")
        nameMatch == match2(arg, "[a-zA-Z_][a-zA-Z0-9_]*")
    IN IF posMatch # NoMatch
       THEN [mode |-> "position", file |-> join(posMatch[1]),
             line |-> parseInt(posMatch[2]), column |-> parseInt(posMatch[3])]
       ELSE IF nameLineMatch # NoMatch
       THEN [mode |-> "name", file |-> join(nameLineMatch[1]),
             name |-> join(nameLineMatch[2]),
             line |-> parseInt(nameLineMatch[3])]
       ELSE IF nameMatch # NoMatch
       THEN [mode |-> "name", file |-> join(nameMatch[1]),
             name |-> join(nameMatch[2]), line |-> Undefined]
       ELSE ParsedNull

\* the pieces the arguments are made of: a letter, a digit, "_", ":", a
\* character that is none of these, a line terminator
ArgPieces == {"a", "1", "_", ":", ".", "\n"}

\* parsePositionArg(arg)
ParsePositionArg ==
    /\ pc = "idle"
    /\ \E arg \in SeqsUpTo(ArgPieces, MaxArgLen) :
        /\ call' = [op |-> "parsePositionArg", arg |-> arg]
        /\ outcome' = Return(parsePositionArg(arg))
        /\ trace' = <<>>
    /\ pc' = "done"
    /\ UNCHANGED <<kept, env>>

NextParse ==
    \/ ParsePositionArg
    \/ Finish

SpecParse == Init /\ [][NextParse]_vars

(***************************************************************************)
(* The installer (src/cli.ts runSetup, src/postinstall.ts main).  world is  *)
(* what the installer meets outside itself: "works", "claudeFails" (every   *)
(* claude command exits non-zero or is not found), "readOnly" (creating a   *)
(* directory or writing a file under ~/.claude throws).                     *)
(***************************************************************************)
Worlds == {"works", "claudeFails", "readOnly"}

\* node <getMcpBinaryPath()>, and an entry left by an earlier installation
ThisServer == "node /dist/mcp.js"
OldServer == "node /old/mcp.js"

\* the content a user gave the guidance document, SKILL_CONTENT of cli.ts,
\* SKILL_CONTENT of postinstall.ts
SkillContents == {"user", "cli.ts SKILL_CONTENT", "postinstall.ts SKILL_CONTENT"}

Envs ==
    {e \in [claudeDir : BOOLEAN, registry : {"absent", OldServer, ThisServer},
            settings : {"absent", "other", "prinfer", "malformed"},
            skillsDir : BOOLEAN, skillFile : {"absent"} \cup SkillContents] :
        /\ ~e.claudeDir => e.settings = "absent" /\ ~e.skillsDir
        /\ ~e.skillsDir => e.skillFile = "absent"}

\* what a run printed and how it ended; status is the exit status
Ran(status, stdout, stderr, steps, e) ==
    [status |-> status, stdout |-> stdout, stderr |-> stderr, trace |-> steps,
     env |-> e]

\* installMcpServer: remove the entry (a failure is ignored), then add it
installMcpServer(e, world) ==
    LET removed == IF world # "claudeFails" /\ e.registry # "absent"
                   THEN [e EXCEPT !.registry = "absent"] ELSE e
    IN IF world = "claudeFails"
       THEN [ok |-> FALSE, stdout |-> <<>>,
             stderr |-> <<"[error] MCP setup failed: Command failed">>,
             env |-> removed]
       ELSE [ok |-> TRUE, stdout |-> <<"[ok] Added prinfer MCP server">>,
             stderr |-> <<>>, env |-> [removed EXCEPT !.registry = ThisServer]]

\* the skill step of runSetup, were the document written whether or not
\* it is there
installSkillOverwrites(e, world) ==
    IF world = "readOnly"
    THEN [ok |-> FALSE, stdout |-> <<>>,
          stderr |-> <<"[error] Failed to install skill: EROFS">>, env |-> e]
    ELSE [ok |-> TRUE,
          stdout |-> <<"[ok] Installed skill to ~/.claude/skills/prefer-infer.md">>,
          stderr |-> <<>>,
          env |-> [e EXCEPT !.skillsDir = TRUE,
                            !.skillFile = "cli.ts SKILL_CONTENT"]]

\* the skill step of runSetup
installSkill(e, world) ==
    IF world = "readOnly" /\ (~e.skillsDir \/ e.skillFile = "absent")
    THEN [ok |-> FALSE, stdout |-> <<>>,
          stderr |-> <<"[error] Failed to install skill: EROFS">>, env |-> e]
    ELSE IF e.skillsDir /\ e.skillFile # "absent"
    THEN [ok |-> TRUE, stdout |-> <<"[ok] Skill already installed">>,
          stderr |-> <<>>, env |-> e]
    ELSE [ok |-> TRUE,
          stdout |-> <<"[ok] Installed skill to ~/.claude/skills/prefer-infer.md">>,
          stderr |-> <<>>,
          env |-> [e EXCEPT !.skillsDir = TRUE,
                            !.skillFile = "cli.ts SKILL_CONTENT"]]

\* the end of runSetup; status Undefined when it returns without process.exit
setupEnd(mcp, skill) ==
    IF mcp.ok /\ skill.ok
    THEN Ran(Undefined,
             mcp.stdout \o skill.stdout
             \o <<"\nSetup complete! Restart Claude Code to use prinfer.">>,
             <<>>, <<>>, skill.env)
    ELSE Ran(1, mcp.stdout \o skill.stdout,
             mcp.stderr \o skill.stderr
             \o <<"\nSome steps failed. Manual setup:\n", "MANUAL_SETUP">>,
             <<>>, skill.env)

\* the skill step follows the server step, whatever that one did
setupSteps(mcp, world) == setupEnd(mcp, installSkill(mcp.env, world))

runSetup(e, world) ==
    IF ~e.claudeDir
    THEN Ran(1, <<>>, <<"Error: ~/.claude directory not found.",
                        "Make sure Claude Code is installed first.\n",
                        "MANUAL_SETUP">>, <<>>, e)
    ELSE setupSteps(installMcpServer(e, world), world)

\* the server step of postinstall.ts
postinstallMcp(e, world) ==
    IF e.settings = "malformed"
    THEN [ok |-> FALSE, stdout |-> <<>>, env |-> e,
          stderr |-> <<"[error] MCP setup failed: Unexpected token">>]
    ELSE IF e.settings = "prinfer"
    THEN [ok |-> TRUE, stdout |-> <<>>, stderr |-> <<>>, env |-> e]
    ELSE IF world = "readOnly"
    THEN [ok |-> FALSE, stdout |-> <<>>, env |-> e,
          stderr |-> <<"[error] MCP setup failed: EROFS">>]
    ELSE [ok |-> TRUE, stderr |-> <<>>,
          stdout |-> <<"[ok] Added MCP server to settings.json">>,
          env |-> [e EXCEPT !.settings = "prinfer"]]

\* the skill step of postinstall.ts
postinstallSkill(e, world) ==
    IF e.skillsDir /\ e.skillFile # "absent"
    THEN [ok |-> TRUE, stdout |-> <<>>, stderr |-> <<>>, env |-> e]
    ELSE IF world = "readOnly"
    THEN [ok |-> FALSE, stdout |-> <<>>, env |-> e,
          stderr |-> <<"[error] Skill setup failed: EROFS">>]
    ELSE [ok |-> TRUE, stderr |-> <<>>,
          stdout |-> <<"[ok] Installed skill to ~/.claude/skills/prefer-infer.md">>,
          env |-> [e EXCEPT !.skillsDir = TRUE,
                            !.skillFile = "postinstall.ts SKILL_CONTENT"]]

\* the end of main of postinstall.ts: it never exits with a failure
postinstallEnd(mcp, skill) ==
    Ran(0, mcp.stdout \o skill.stdout,
        mcp.stderr \o skill.stderr
        \o (IF mcp.ok /\ skill.ok THEN <<>>
            ELSE <<"\nSome steps failed. Run 'prinfer setup' for details.">>),
        <<>>, skill.env)

postinstallSteps(mcp, world) ==
    postinstallEnd(mcp, postinstallSkill(mcp.env, world))

\* main of postinstall.ts
postinstallMain(e, world) ==
    IF ~e.claudeDir
    THEN Ran(0, <<"~/.claude not found. Run 'prinfer setup' after installing Claude Code.">>,
             <<>>, <<>>, e)
    ELSE postinstallSteps(postinstallMcp(e, world), world)

(***************************************************************************)
(* The command (src/cli.ts parseArgs, main).  args is process.argv.slice(2), *)
(* each argument a sequence of pieces.                                      *)
(***************************************************************************)
includes(args, texts) == \E k \in DOMAIN args : join(args[k]) \in texts

FormatError ==
    <<"Error: Argument must be in format <file>:<line>:<column> or <file>:<name> or <file>:<name>:<line>\n">>

\* the project option: "none" without --project or -p, else the argument
\* that follows the first of them (undefined when none follows)
projectOf(args) ==
    LET found == {k \in DOMAIN args : join(args[k]) \in {"--project", "-p"}}
    IN IF found = {} THEN "none"
       ELSE LET projectIdx == CHOOSE k \in found : \A j \in found : k <= j
            IN IF projectIdx + 1 \in DOMAIN args
               THEN join(args[projectIdx + 1]) ELSE NoString

\* the lines main would print, were the kind printed before the name
printResultKindFirst(result) ==
    <<<<result.signature>>>>
    \o (IF truthyString(result.returnType)
        THEN <<<<"returns:", result.returnType>>>> ELSE <<>>)
    \o <<<<"kind:", result.kind>>>>
    \o (IF truthyString(result.name) THEN <<<<"name:", result.name>>>> ELSE <<>>)
    \o (IF truthyString(result.documentation)
        THEN <<<<"docs:", result.documentation>>>> ELSE <<>>)

\* the lines main prints for a result
printResult(result) ==
    <<<<result.signature>>>>
    \o (IF truthyString(result.returnType)
        THEN <<<<"returns:", result.returnType>>>> ELSE <<>>)
    \o (IF truthyString(result.name) THEN <<<<"name:", result.name>>>> ELSE <<>>)
    \o <<<<"kind:", result.kind>>>>
    \o (IF truthyString(result.documentation)
        THEN <<<<"docs:", result.documentation>>>> ELSE <<>>)

\* main after the lookup: the result on standard output, or the message of
\* what was caught on standard error and exit status 1
report(step, e) ==
    IF step.outcome.tag = "return"
    THEN Ran(0, printResult(step.outcome.value), <<>>, step.trace, e)
    ELSE Ran(1, <<>>,
             <<IF step.outcome.error.isError
               THEN step.outcome.error.message ELSE <<"undefined">>>>,
             step.trace, e)

\* hover(file, line, column, options) or hover(file, name, options)
hover(parsed, project, includeDocs, thrown) ==
    IF parsed.mode = "position"
    THEN hoverByPositionImpl(parsed.file, parsed.line, parsed.column, project,
                             includeDocs, thrown)
    ELSE hoverByNameImpl(parsed.file, parsed.name, parsed.line, project,
                         includeDocs, thrown)

\* parseArgs from the parsed first argument on, and the lookup of main
lookup(parsed, args, e, thrown) ==
    IF parsed = ParsedNull
    THEN Ran(1, <<"HELP">>, FormatError, <<>>, e)
    ELSE IF ~truthyString(projectOf(args))
    THEN Ran(1, <<"HELP">>, <<"Error: --project requires a path argument.\n">>,
             <<>>, e)
    ELSE report(hover(parsed, projectOf(args), includes(args, {"--docs", "-d"}),
                      thrown), e)

\* process.exit(0) when parseArgs returns null
exit0(ran) == IF ran.status = Undefined THEN [ran EXCEPT !.status = 0] ELSE ran

\* main, parseArgs included
main(args, e, world, thrown) ==
    IF includes(args, {"--help", "-h"}) \/ Len(args) = 0
    THEN Ran(0, <<"HELP">>, <<>>, <<>>, e)
    ELSE IF join(args[1]) = "setup"
    THEN exit0(runSetup(e, world))
    ELSE lookup(parsePositionArg(args[1]), args, e, thrown)

\* the process has ended
Exited(ran) ==
    /\ outcome' = [tag |-> "exit", status |-> ran.status,
                   stdout |-> ran.stdout, stderr |-> ran.stderr]
    /\ trace' = ran.trace
    /\ env' = ran.env

\* the first arguments tried: lookups that succeed (by position, by name, by
\* name and line), lookups that fail (no file, no line 9, no such name), a
\* bare file, a file and a line, an option, the setup command
FirstArgs ==
    {<<"decls.ts", ":", "1", ":", "1", "9">>, <<"calls.ts", ":", "j">>,
     <<"calls.ts", ":", "a", ":", "5">>, <<"missing.ts", ":", "1", ":", "1">>,
     <<"decls.ts", ":", "9", ":", "1">>, <<"decls.ts", ":", "nonExistent">>,
     <<"decls.ts">>, <<"decls.ts", ":", "4">>, <<"--docs">>, <<"setup">>}
\* the arguments that follow: options, paths of project configurations, ""
RestArgs ==
    {<<"--docs">>, <<"-d">>, <<"--project">>, <<"-p">>, <<"-h">>, <<"--help">>,
     <<"ok">>, <<"malformed">>, <<>>}
MaxRest == 2

\* a project path names a configuration loadProgram knows
Argvs ==
    {<<>>, <<<<"-h">>>>}
    \cup {<<first>> \o rest : first \in FirstArgs, rest \in SeqsUpTo(RestArgs, MaxRest)}

InitCli ==
    /\ pc = "idle"
    /\ call = NoCall
    /\ outcome = NoOutcome
    /\ trace = <<>>
    /\ kept = NoKept
    /\ env \in {NoHome, FreshHome}

\* prinfer <args>.  The world matters to setup alone and what the checker
\* throws to a lookup alone.
Main ==
    /\ pc = "idle"
    /\ \E args \in Argvs, world \in Worlds, thrown \in Thrown :
        /\ IF Len(args) > 0 /\ join(args[1]) = "setup"
           THEN thrown = "none" ELSE world = "works"
        /\ \A k \in DOMAIN args :
              (k > 1 /\ join(args[k - 1]) \in {"--project", "-p"})
              => join(args[k]) \in {"ok", "malformed", ""}
        /\ call' = [op |-> "main", args |-> args, world |-> world,
                    thrown |-> thrown, env |-> env]
        /\ Exited(main(args, env, world, thrown))
    /\ pc' = "done"
    /\ UNCHANGED kept

NextCli ==
    \/ Main
    \/ Finish

SpecCli == InitCli /\ [][NextCli]_vars

InitSetup ==
    /\ pc = "idle"
    /\ call = NoCall
    /\ outcome = NoOutcome
    /\ trace = <<>>
    /\ kept = NoKept
    /\ env \in Envs

\* prinfer setup
Setup ==
    /\ pc = "idle"
    /\ \E world \in Worlds :
        /\ call' = [op |-> "setup", world |-> world, env |-> env]
        /\ Exited(main(<<<<"setup">>>>, env, world, "none"))
    /\ pc' = "done"
    /\ UNCHANGED kept

\* node postinstall.js, as the package manager runs it after installation
Postinstall ==
    /\ pc = "idle"
    /\ \E world \in Worlds :
        /\ call' = [op |-> "postinstall", world |-> world, env |-> env]
        /\ Exited(postinstallMain(env, world))
    /\ pc' = "done"
    /\ UNCHANGED kept

\* the run ends; what it did and the environment it left are remembered
FinishInstaller ==
    /\ pc = "done"
    /\ pc' = "idle"
    /\ call' = NoCall
    /\ outcome' = NoOutcome
    /\ trace' = <<>>
    /\ kept' = [call |-> call, outcome |-> outcome, env |-> env]
    /\ UNCHANGED env

NextSetup ==
    \/ Setup
    \/ Postinstall
    \/ FinishInstaller

SpecSetup == InitSetup /\ [][NextSetup]_vars

\* the source file a call works on (the core functions take the source
\* file itself, the entry points a path relative to the working directory)
FileOf(c) ==
    CHOOSE sf \in SourceFiles :
        sf.fileName = c.file \/ sf.fileName = resolve(c.file)

(***************************************************************************)
(* Vocabulary of the properties, stated on the text and the tree without   *)
(* the locator's own computations.                                         *)
(***************************************************************************)
\* the syntax trees are well formed: ids are pre-order numbers, a child lies
\* within its parent, siblings do not overlap and are in source order, and
\* the named children of a node are children of it
TreeWellFormed(sf) ==
    /\ sf.tree[Root].parent = NoNode
    /\ \A n \in Nodes(sf) \ {Root} :
        LET q == sf.tree[n].parent IN
        /\ q \in Nodes(sf) /\ q < n
        /\ getStart(sf, q) <= getStart(sf, n)
        /\ getNodeEnd(sf, n) <= getNodeEnd(sf, q)
        /\ getStart(sf, n) <= getNodeEnd(sf, n)
        /\ \A m \in Nodes(sf) :
              (m > n /\ sf.tree[m].parent = q)
                  => getNodeEnd(sf, n) <= getStart(sf, m)
        \* pre-order: everything numbered between a node and its parent
        \* descends from the parent
        /\ \A m \in (q + 1)..(n - 1) : sf.tree[m].parent >= q
    /\ \A n \in Nodes(sf) :
        /\ getNodeEnd(sf, n) <= Len(sf.text)
        /\ \A c \in {nameOf(sf, n), expressionOf(sf, n), initializerOf(sf, n)} :
              c # NoNode => (c \in Nodes(sf) /\ sf.tree[c].parent = n)
        \* a token starts and ends on a character that is no line terminator
        /\ (n # Root /\ getWidth(sf, n) > 0) =>
              /\ sf.text[getStart(sf, n) + 1] = "c"
              /\ sf.text[getNodeEnd(sf, n)] = "c"
FixturesWellFormed == \A sf \in SourceFiles : TreeWellFormed(sf)

\* the number of lines of the text: one more than its line terminators
LineCount(sf) == Cardinality({p \in 0..Len(sf.text) : isLineStart(sf.text, p)})
\* the offset at which the 1-based line starts
LineStartOf(sf, line) ==
    CHOOSE p \in 0..Len(sf.text) :
        /\ isLineStart(sf.text, p)
        /\ Cardinality({q \in 0..(p - 1) : isLineStart(sf.text, q)}) = line - 1
\* the length of the 1-based line: its characters up to, and without, its
\* line terminator
LineLength(sf, line) ==
    LET s == LineStartOf(sf, line) IN
    Cardinality({p \in s..(Len(sf.text) - 1) :
                    \A q \in s..p : sf.text[q + 1] = "c"})
\* the 1-based line on which the offset lies
LineOfOffset(sf, offset) ==
    Cardinality({p \in 0..offset : isLineStart(sf.text, p)})
\* a position within the file bounds: an existing line and a column on one
\* of its characters or immediately past the last one
InFileBounds(sf, line, column) ==
    /\ 1 <= line /\ line <= LineCount(sf)
    /\ 1 <= column /\ column <= LineLength(sf, line) + 1
\* the offset a position within the file bounds denotes
OffsetOf(sf, line, column) == LineStartOf(sf, line) + column - 1

\* the file a call names is one of the files on disk
OnDisk(file) == \E sf \in SourceFiles : sf.fileName = "/cwd/" \o file

\* the call is one of the entry points, the file exists and the program
\* loads with the file in it
Located ==
    /\ pc = "done"
    /\ call.op \in {"hoverByPosition", "hoverByName", "batchHover"}
    /\ OnDisk(call.file)
    /\ call.project \in {"none", "ok"}

PositionNotFound(file, line, column) ==
    Err("Error", <<"No symbol found at ", file, ":", ToString(line), ":",
                   ToString(column)>>)

(***************************************************************************)
(* C1.  For every position outside the file bounds (line < 1, line > last  *)
(* line, column < 1, or column beyond line length + 1), hover by position  *)
(* fails with "No symbol found at <file>:<line>:<column>" and with no      *)
(* other error.                                                            *)
(* The code measures a line up to the start of the next one, terminator    *)
(* included, so on every line but the last the columns up to one past the  *)
(* terminator pass its validation: the last of them trips the compiler's   *)
(* Debug Failure, the others (CR LF) are looked up and return a result.    *)
(***************************************************************************)
C1_OutOfBoundsIsPositionNotFound ==
    (/\ Located /\ call.op = "hoverByPosition"
     /\ ~InFileBounds(FileOf(call), call.line, call.column))
    => outcome = Throw(PositionNotFound(resolve(call.file), call.line,
                                        call.column))

\* what does hold: a position the code's own validation rejects is reported
\* as PositionNotFound
RejectedIsPositionNotFound ==
    (/\ Located /\ call.op = "hoverByPosition"
     /\ ~boundsOk(FileOf(call), call.line, call.column))
    => outcome = Throw(PositionNotFound(resolve(call.file), call.line,
                                        call.column))

(***************************************************************************)
(* C2.  findNodeAtPosition accepts (line, column) exactly when             *)
(* 1 <= line <= number of lines and 1 <= column <= line length + 1, the    *)
(* largest accepted column being the one just before the line terminator;  *)
(* every other position yields an absent result, not an error.             *)
(* Accepting a position is looking up the offset it denotes.               *)
(***************************************************************************)
C2_AcceptsExactlyInBounds ==
    (pc = "done" /\ call.op = "findNodeAtPosition")
    => LET sf == FileOf(call) IN
       IF InFileBounds(sf, call.line, call.column)
       THEN outcome = Return(findHoverableAncestor(sf,
                                 OffsetOf(sf, call.line, call.column)))
       ELSE outcome = Return(NoNode)

(***************************************************************************)
(* C3.  For every position within the name token of a function, method     *)
(* (declaration or signature), variable, class or interface declaration,   *)
(* hover by position resolves to that declaration: the returned kind is    *)
(* the declaration's category and the returned line and column denote a    *)
(* position inside the declaration's span.                                 *)
(* A method whose name is a string literal is not promoted: the result is  *)
(* the literal, of kind "unknown".                                         *)
(***************************************************************************)
Declarations(sf) ==
    {d \in Nodes(sf) :
        /\ kindOf(sf, d) \in {"FunctionDeclaration", "MethodDeclaration",
                              "MethodSignature", "VariableDeclaration",
                              "ClassDeclaration", "InterfaceDeclaration"}
        /\ nameOf(sf, d) # NoNode}
\* the category of a declaration; a variable initialised with a function is
\* a function
Category(sf, d) ==
    CASE kindOf(sf, d) = "FunctionDeclaration" -> "function"
      [] kindOf(sf, d) \in {"MethodDeclaration", "MethodSignature"} -> "method"
      [] kindOf(sf, d) = "VariableDeclaration" ->
            IF initializerOf(sf, d) # NoNode
               /\ kindOf(sf, initializerOf(sf, d))
                     \in {"ArrowFunction", "FunctionExpression"}
            THEN "function" ELSE "variable"
      [] kindOf(sf, d) = "ClassDeclaration" -> "class"
      [] kindOf(sf, d) = "InterfaceDeclaration" -> "interface"
\* the queried position of a hover by position lies on the name token of d
OnNameOf(sf, d, line, column) ==
    /\ InFileBounds(sf, line, column)
    /\ OffsetOf(sf, line, column) >= getStart(sf, nameOf(sf, d))
    /\ OffsetOf(sf, line, column) < getNodeEnd(sf, nameOf(sf, d))
ResolvesTo(sf, d, value) ==
    /\ value.kind = Category(sf, d)
    /\ InFileBounds(sf, value.line, value.column)
    /\ OffsetOf(sf, value.line, value.column) >= getStart(sf, d)
    /\ OffsetOf(sf, value.line, value.column) < getNodeEnd(sf, d)

C3_NameTokenResolvesToDeclaration ==
    (Located /\ call.op = "hoverByPosition" /\ call.thrown = "none")
    => \A d \in Declarations(FileOf(call)) :
          OnNameOf(FileOf(call), d, call.line, call.column)
          => /\ outcome.tag = "return"
             /\ ResolvesTo(FileOf(call), d, outcome.value)

\* what does hold: the same for the declarations whose name is an identifier
IdentifierNameResolvesToDeclaration ==
    (Located /\ call.op = "hoverByPosition" /\ call.thrown = "none")
    => \A d \in Declarations(FileOf(call)) :
          (/\ OnNameOf(FileOf(call), d, call.line, call.column)
           /\ kindOf(FileOf(call), nameOf(FileOf(call), d)) = "Identifier")
          => /\ outcome.tag = "return"
             /\ ResolvesTo(FileOf(call), d, outcome.value)
             /\ outcome.value.name = textOf(FileOf(call), nameOf(FileOf(call), d))

(***************************************************************************)
(* C4.  For every call expression and every offset on its callee           *)
(* identifier (direct call) or on the final member name of its             *)
(* property-access callee, findNodeAtPosition returns that call expression *)
(* itself, the innermost one when calls are nested, so the hover has kind  *)
(* "call" and the callee's name; an offset on any other part of the callee *)
(* is not promoted to the call.                                            *)
(***************************************************************************)
Calls(sf) == {c \in Nodes(sf) : kindOf(sf, c) = "CallExpression"}
\* the token that names the callee of the call c, if it has one
CalleeNameToken(sf, c) ==
    LET e == expressionOf(sf, c) IN
    CASE kindOf(sf, e) = "Identifier" -> e
      [] kindOf(sf, e) = "PropertyAccessExpression" -> nameOf(sf, e)
      [] OTHER -> NoNode
\* the position lies on the node x
On(sf, x, line, column) ==
    /\ x # NoNode
    /\ InFileBounds(sf, line, column)
    /\ OffsetOf(sf, line, column) >= getStart(sf, x)
    /\ OffsetOf(sf, line, column) < getNodeEnd(sf, x)

C4_CalleeNamePromotesCall ==
    /\ (pc = "done" /\ call.op = "findNodeAtPosition")
       => \A c \in Calls(FileOf(call)) :
            LET sf == FileOf(call)
                onName == On(sf, CalleeNameToken(sf, c), call.line, call.column)
            IN /\ onName => outcome = Return(c)
               /\ (On(sf, expressionOf(sf, c), call.line, call.column) /\ ~onName)
                      => outcome # Return(c)
    /\ (Located /\ call.op = "hoverByPosition" /\ call.thrown = "none")
       => \A c \in Calls(FileOf(call)) :
            LET sf == FileOf(call) IN
            On(sf, CalleeNameToken(sf, c), call.line, call.column)
            => /\ outcome.tag = "return"
               /\ outcome.value.kind = "call"
               /\ outcome.value.name = textOf(sf, CalleeNameToken(sf, c))

\* the position is on the callee name of a call that is nested in the callee
\* of another call, and the nested call is what is returned
C4_Witness ==
    /\ pc = "done" /\ call.op = "findNodeAtPosition"
    /\ \E c \in Calls(FileOf(call)), outer \in Calls(FileOf(call)) :
        LET sf == FileOf(call) IN
        /\ outer # c
        /\ getStart(sf, outer) <= getStart(sf, c)
        /\ getNodeEnd(sf, c) <= getNodeEnd(sf, outer)
        /\ On(sf, CalleeNameToken(sf, c), call.line, call.column)
        /\ outcome = Return(c)

(***************************************************************************)
(* C5.  findNodeByNameAndLine returns the first node, in depth-first       *)
(* pre-order with children in source order, that is a function-like or     *)
(* variable declaration of the name or a call whose callee has the name    *)
(* and, when a line is given, whose first character is on that line; a     *)
(* node of the name on another line does not stop the search of its        *)
(* descendants; the result is absent exactly when no node qualifies.       *)
(***************************************************************************)
RECURSIVE IsAncestor(_, _, _)
IsAncestor(sf, a, d) ==
    /\ d # Root
    /\ \/ sf.tree[d].parent = a
       \/ IsAncestor(sf, a, sf.tree[d].parent)
\* m comes before n in depth-first pre-order, children in source order
Precedes(sf, m, n) ==
    \/ IsAncestor(sf, m, n)
    \/ /\ ~IsAncestor(sf, n, m)
       /\ getStart(sf, m) < getStart(sf, n)
\* the nodes the search is for
Qualifying(sf, name, line) ==
    {n \in Nodes(sf) :
        /\ isNamedNode(sf, n, name) \/ isCallExpressionNamed(sf, n, name)
        /\ line # Undefined => LineOfOffset(sf, getStart(sf, n)) = line}

C5_FirstInPreOrder ==
    (pc = "done" /\ call.op = "findNodeByNameAndLine")
    => LET sf == FileOf(call)
           M == Qualifying(sf, call.name, call.line)
       IN /\ outcome.tag = "return"
          /\ IF M = {} THEN outcome.value = NoNode
             ELSE /\ outcome.value \in M
                  /\ \A m \in M \ {outcome.value} :
                        Precedes(sf, outcome.value, m)

\* the result lies within a node of the same name that is on another line
C5_Witness ==
    /\ pc = "done" /\ call.op = "findNodeByNameAndLine"
    /\ call.line # Undefined
    /\ outcome.value # NoNode
    /\ \E n \in Nodes(FileOf(call)) :
        /\ isNamedNode(FileOf(call), n, call.name)
        /\ LineOfOffset(FileOf(call), getStart(FileOf(call), n)) # call.line
        /\ IsAncestor(FileOf(call), n, outcome.value)

(***************************************************************************)
(* C6.  Whenever hover by name finds no matching node, it fails with an    *)
(* error "No symbol named ..." whose message contains the queried name and *)
(* the file and, for every call with a line hint, the attempted line.      *)
(* A line hint of 0 restricts the search (no node is on line 0) but is     *)
(* left out of the message.                                                *)
(***************************************************************************)
Parts(message) == {message[i] : i \in 1..Len(message)}

C6_NotFoundNamesLine ==
    (/\ Located /\ call.op = "hoverByName"
     /\ Qualifying(FileOf(call), call.name, call.line) = {})
    => /\ outcome.tag = "throw"
       /\ Head(outcome.error.message) = "No symbol named \""
       /\ call.name \in Parts(outcome.error.message)
       /\ call.file \in Parts(outcome.error.message)
       /\ call.line # Undefined
              => ToString(call.line) \in Parts(outcome.error.message)

(***************************************************************************)
(* C7.  For each public entry point, when the target file does not exist   *)
(* the call fails with "File not found" and the program loader is never    *)
(* invoked; batchHover fails as a whole, not per position.                 *)
(***************************************************************************)
C7_MissingFileFailsBeforeLoad ==
    (/\ pc = "done"
     /\ call.op \in {"hoverByPosition", "hoverByName", "batchHover"}
     /\ ~OnDisk(call.file))
    => /\ outcome = Throw(Err("Error", <<"File not found: ", "/cwd/" \o call.file>>))
       /\ "loadProgram" \notin Parts(trace)

\* a batch of positions on a missing file has failed as a whole
C7_Witness ==
    /\ pc = "done" /\ call.op = "batchHover"
    /\ ~OnDisk(call.file)
    /\ Len(call.positions) > 0
    /\ outcome.tag = "throw"

(***************************************************************************)
(* C8.  Every call of a public entry point either returns a value produced *)
(* by the extractor for a located node or fails with exactly one of        *)
(* NotFound, ProjectConfigError, SymbolNotFound, PositionNotFound and      *)
(* CheckerInternalError; no failure escapes this taxonomy.                 *)
(* Stated for the calls in which the checker throws no value that is not   *)
(* an Error: the compiler's Debug Failure for a position one past a line   *)
(* terminator (C1, C2) leaves hover by position as it is.                  *)
(***************************************************************************)
Taxonomy(error) ==
    IF ~error.isError THEN "none"
    ELSE IF error.name = "TypeScriptInternalError" THEN "CheckerInternalError"
    ELSE CASE Head(error.message) = "File not found: " -> "NotFound"
           [] Head(error.message) = "tsconfig.json diagnostic" -> "ProjectConfigError"
           [] Head(error.message) = Head(CouldNotLoad("").message) -> "ProjectConfigError"
           [] Head(error.message) = "No symbol named \"" -> "SymbolNotFound"
           [] Head(error.message) = "No symbol found at " -> "PositionNotFound"
           [] OTHER -> "none"

C8_FailuresAreClassified ==
    (/\ pc = "done"
     /\ call.op \in {"hoverByPosition", "hoverByName"}
     /\ call.thrown # "NonError")
    => \/ /\ outcome.tag = "return"
          /\ trace[Len(trace)] = "getHoverInfo"
       \/ /\ outcome.tag = "throw"
          /\ Taxonomy(outcome.error) # "none"

(***************************************************************************)
(* C9.  Any error raised while getHoverInfo extracts type information is   *)
(* caught and re-raised as a TypeScriptInternalError carrying the file,    *)
(* the 1-based line and column of the node's start, the operation and the  *)
(* cause; no value thrown during extraction leaves getHoverInfo unwrapped. *)
(***************************************************************************)
Wrapped ==
    LET sf == FileOf(call)
        start == getStart(sf, call.node)
        line == LineOfOffset(sf, start)
    IN /\ outcome.tag = "throw"
       /\ outcome.error.name = "TypeScriptInternalError"
       /\ outcome.error.file = sf.fileName
       /\ outcome.error.line = line
       /\ outcome.error.column = start - LineStartOf(sf, line) + 1
       /\ outcome.error.operation = "getting type information"
       /\ outcome.error.cause = thrownValue(call.thrown)

C10_OneItemPerPosition ==
    (Located /\ call.op = "batchHover")
    => /\ outcome.tag = "return"
       /\ Len(outcome.value.items) = Len(call.positions)
       /\ \A i \in 1..Len(call.positions) :
            outcome.value.items[i].position = call.positions[i]

\* a batch whose first position fails and whose last one succeeds
C10_Witness ==
    /\ Located /\ call.op = "batchHover"
    /\ Len(call.positions) > 1
    /\ outcome.tag = "return"
    /\ outcome.value.items[1].result = NoResult
    /\ outcome.value.items[Len(call.positions)].result # NoResult

(***************************************************************************)
(* C11.  In every batchHover result each item holds exactly one of a       *)
(* result or an error message, so successCount + errorCount is the number  *)
(* of positions, whatever value was thrown while processing a position.    *)
(* The catch of the loop takes the message of whatever was thrown: a       *)
(* thrown value that is no Error has none, and the item is left with       *)
(* neither a result nor an error.                                          *)
(***************************************************************************)
C11_ItemHasResultOrError ==
    (Located /\ call.op = "batchHover")
    => /\ outcome.tag = "return"
       /\ \A i \in 1..Len(outcome.value.items) :
            LET item == outcome.value.items[i] IN
            (item.result # NoResult) # (item.error # NoMessage)
       /\ outcome.value.successCount + outcome.value.errorCount
              = Len(call.positions)

(***************************************************************************)
(* C12.  A batch lookup over N positions of which exactly one is out of    *)
(* bounds returns successCount = N-1, errorCount = 1 and N items in input  *)
(* order.                                                                  *)
(* Stated for the batches whose other positions lie on a token and whose   *)
(* extraction throws nothing.  On a line ended by CR LF the column on the  *)
(* line feed is out of bounds, passes the validation (C2) and is looked    *)
(* up: the item holds a result.                                            *)
(***************************************************************************)
\* the position lies on a token of the file
OnToken(sf, pos) ==
    \E n \in Nodes(sf) \ {Root} :
        /\ forEachChild(sf, n) = <<>>
        /\ On(sf, n, pos.line, pos.column)
OutOfBounds(sf, positions) ==
    {i \in 1..Len(positions) :
        ~InFileBounds(sf, positions[i].line, positions[i].column)}

C12_OneOutOfBounds ==
    (/\ Located /\ call.op = "batchHover"
     /\ Cardinality(OutOfBounds(FileOf(call), call.positions)) = 1
     /\ \A i \in 1..Len(call.positions) :
          /\ call.thrown[i] = "none"
          /\ i \notin OutOfBounds(FileOf(call), call.positions)
                => OnToken(FileOf(call), call.positions[i]))
    => /\ outcome.tag = "return"
       /\ outcome.value.successCount = Len(call.positions) - 1
       /\ outcome.value.errorCount = 1
       /\ Len(outcome.value.items) = Len(call.positions)
       /\ \A i \in 1..Len(call.positions) :
            outcome.value.items[i].position = call.positions[i]

(***************************************************************************)
(* C13.  A single batchHover call loads the program exactly once, before   *)
(* the first position is processed, whatever the number of positions and   *)
(* of failures among them; only the locate and extract steps are repeated  *)
(* per position.                                                           *)
(***************************************************************************)
Count(seq, x) == Cardinality({i \in 1..Len(seq) : seq[i] = x})

C13_LoadsOnce ==
    (pc = "done" /\ call.op = "batchHover" /\ OnDisk(call.file))
    => /\ Count(trace, "loadProgram") = 1
       /\ \A i \in 1..Len(trace) :
            trace[i] \in {"findNodeAtPosition", "getHoverInfo"}
                => \E j \in 1..(i - 1) : trace[j] = "loadProgram"
       /\ outcome.tag = "return"
              => Count(trace, "findNodeAtPosition") = Len(call.positions)

\* a batch of several positions, one of them failing, has completed
C13_Witness ==
    /\ Located /\ call.op = "batchHover"
    /\ Len(call.positions) > 1
    /\ outcome.tag = "return"
    /\ outcome.value.errorCount > 0
    /\ outcome.value.successCount > 0
    /\ Count(trace, "loadProgram") = 1

(***************************************************************************)
(* C14.  Every Program returned by loadProgram contains the entry file, or *)
(* loadProgram fails; in particular, with a project configuration whose    *)
(* file set does not include the entry file, loadProgram does not return a *)
(* Program lacking the entry file.                                         *)
(* loadProgram builds the program from the configuration's file set as it  *)
(* is; the entry points look the entry file up afterwards.                 *)
(***************************************************************************)
\* as claimed
C14_ProgramContainsEntryFile ==
    (pc = "done" /\ call.op = "loadProgram" /\ OnDisk(call.file))
    => \/ outcome.tag = "throw"
       \/ /\ outcome.tag = "return"
          /\ ("/cwd/" \o call.file) \in outcome.value.fileNames

(***************************************************************************)
(* C15.  The documentation field of a result is present exactly when       *)
(* documentation was requested and the resolved symbol has a non-empty     *)
(* documentation comment: absent for every node without include_docs,      *)
(* absent with include_docs for a symbol without a doc comment.            *)
(***************************************************************************)
\* the token whose symbol the extractor resolves for the node
SymbolToken(sf, node) ==
    IF kindOf(sf, node) = "CallExpression"
    THEN (IF kindOf(sf, expressionOf(sf, node)) = "PropertyAccessExpression"
          THEN nameOf(sf, expressionOf(sf, node))
          ELSE expressionOf(sf, node))
    ELSE IF nameOf(sf, node) # NoNode THEN nameOf(sf, node)
    ELSE node
\* the node's symbol has a documentation comment
Documented(sf, node) ==
    /\ kindOf(sf, SymbolToken(sf, node))
           \in {"Identifier", "StringLiteral", "NumericLiteral"}
    /\ textOf(sf, SymbolToken(sf, node)) \in sf.documented

C15_DocumentationWhenRequested ==
    /\ (pc = "done" /\ call.op = "getHoverInfo" /\ outcome.tag = "return")
       => (outcome.value.documentation # NoString
              <=> (call.include_docs /\ Documented(FileOf(call), call.node)))
    /\ (/\ pc = "done" /\ call.op \in {"hoverByPosition", "hoverByName"}
        /\ outcome.tag = "return")
       => /\ ~call.include_docs => outcome.value.documentation = NoString
          /\ outcome.value.documentation # NoString
                => outcome.value.name \in FileOf(call).documented
    /\ (pc = "done" /\ call.op = "batchHover" /\ outcome.tag = "return")
       => \A i \in 1..Len(outcome.value.items) :
            LET item == outcome.value.items[i] IN
            (item.result # NoResult /\ ~call.include_docs)
                => item.result.documentation = NoString

\* a hover by position that asked for documentation has returned that of a
\* documented declaration
C15_Witness ==
    /\ pc = "done" /\ call.op = "hoverByPosition"
    /\ call.include_docs
    /\ outcome.tag = "return"
    /\ outcome.value.documentation # NoString
    /\ outcome.value.kind = "function"

\* C14 as amended: loadProgram fails only for a configuration that cannot be
\* read, and otherwise returns the program of the configuration's file set,
\* which may lack the entry file; every entry point then fails with "Could
\* not load source file into the program" before any locate or extract step,
\* so the Program a lookup works on always contains the entry file
C14_EntryPointsRequireEntryFile ==
    /\ (pc = "done" /\ call.op = "loadProgram")
       => (outcome.tag = "throw" <=> call.project = "malformed")
    /\ (/\ pc = "done"
        /\ call.op \in {"hoverByPosition", "hoverByName", "batchHover"}
        /\ OnDisk(call.file))
       => /\ call.project = "excludes"
             => /\ outcome.tag = "throw"
                /\ Taxonomy(outcome.error) = "ProjectConfigError"
                /\ ("/cwd/" \o call.file) \in Parts(outcome.error.message)
          /\ call.project \in {"excludes", "malformed"}
             => trace = <<"existsSync", "loadProgram">>

\* a hover on a file that its project configuration leaves out has failed
C14_Witness ==
    /\ pc = "done" /\ call.op = "hoverByPosition"
    /\ OnDisk(call.file)
    /\ call.project = "excludes"
    /\ outcome.tag = "throw"
    /\ Head(outcome.error.message) = Head(CouldNotLoad("").message)

(***************************************************************************)
(* C17.  Every invocation of the hover, hoverByName and batch_hover tools  *)
(* completes by returning a payload: a text content block on success, or a *)
(* payload with isError = true rendering the failure when the lookup       *)
(* raises; no raised value propagates out of a tool handler.               *)
(***************************************************************************)
IsTool == pc = "done" /\ call.op \in {"hoverTool", "hoverByNameTool", "batchHoverTool"}

C17_ToolsReturnPayload ==
    IsTool
    => /\ outcome.tag = "return"
       /\ Len(outcome.value.content) = 1
       /\ outcome.value.content[1].type = "text"
       /\ LET text == outcome.value.content[1].text IN
          /\ outcome.value.isError => Head(text) = "Error: "
          /\ ~outcome.value.isError
                => Head(text) \in {"Type: ", "Batch hover results: "}
          \* the lookup raises for a missing file and for a project
          \* configuration that cannot be read or leaves the file out
          /\ ~OnDisk(call.file)
                => outcome.value.isError /\ "File not found: " \in Parts(text)
          /\ (OnDisk(call.file) /\ call.project \in {"excludes", "malformed"})
                => outcome.value.isError
          \* a value thrown by the checker is rendered as well
          /\ (call.op # "batchHoverTool" /\ "getHoverInfo" \in Parts(trace))
                => (outcome.value.isError <=> call.thrown # "none")
          /\ (call.op = "batchHoverTool" /\ OnDisk(call.file)
                 /\ call.project \in {"none", "ok"})
                => ~outcome.value.isError

\* the hover tool has rendered a value thrown by the checker that is no Error
C17_Witness ==
    /\ IsTool /\ call.op = "hoverTool"
    /\ call.thrown = "NonError"
    /\ "getHoverInfo" \in Parts(trace)
    /\ outcome.tag = "return"
    /\ outcome.value.isError

Colons(s) == {k \in DOMAIN s : s[k] = ":"}
HasColon(s) == Colons(s) # {}
LastColon(s) == CHOOSE k \in Colons(s) : \A j \in Colons(s) : j <= k
BeforeLastColon(s) == SubSeq(s, 1, LastColon(s) - 1)
AfterLastColon(s) == SubSeq(s, LastColon(s) + 1, Len(s))

IsDigitChar(c) == c \in {"0", "1", "2", "3", "4", "5", "6", "7", "8", "9"}
IsLetter(c) == c \in Names \/ c = "setup"
IsFile(s) == Len(s) >= 1 /\ ~ \E k \in DOMAIN s : s[k] = "\n"
IsDigits(s) == Len(s) >= 1 /\ \A k \in DOMAIN s : IsDigitChar(s[k])
IsIdentifier(s) ==
    /\ Len(s) >= 1
    /\ IsLetter(s[1]) \/ s[1] = "_"
    /\ \A k \in 2..Len(s) : IsLetter(s[k]) \/ IsDigitChar(s[k]) \/ s[k] = "_"

\* <file>:<last>
FileThen(s, last(_)) ==
    HasColon(s) /\ IsFile(BeforeLastColon(s)) /\ last(AfterLastColon(s))
\* <file>:<middle>:<last>
FileThenTwo(s, middle(_), last(_)) ==
    /\ HasColon(s) /\ last(AfterLastColon(s))
    /\ FileThen(BeforeLastColon(s), middle)

PositionForm(s) == FileThenTwo(s, IsDigits, IsDigits)
NameLineForm(s) == FileThenTwo(s, IsIdentifier, IsDigits)
NameForm(s) == FileThen(s, IsIdentifier)

Parsed == pc = "done" /\ call.op = "parsePositionArg"

C19_ClassifiesFirstArgument ==
    Parsed =>
        LET arg == call.arg
            parsed == outcome.value
        IN /\ PositionForm(arg)
                => /\ parsed.mode = "position"
                   /\ parsed.file = join(BeforeLastColon(BeforeLastColon(arg)))
           /\ (NameLineForm(arg) /\ ~PositionForm(arg))
                => /\ parsed.mode = "name" /\ parsed.line # Undefined
                   /\ parsed.file = join(BeforeLastColon(BeforeLastColon(arg)))
                   /\ parsed.name = join(AfterLastColon(BeforeLastColon(arg)))
           /\ (NameForm(arg) /\ ~PositionForm(arg))
                => /\ parsed.mode = "name" /\ parsed.line = Undefined
                   /\ parsed.file = join(BeforeLastColon(arg))
                   /\ parsed.name = join(AfterLastColon(arg))
           /\ ~(PositionForm(arg) \/ NameLineForm(arg) \/ NameForm(arg))
                => parsed = ParsedNull
           /\ ~HasColon(arg) => parsed = ParsedNull
           /\ (FileThen(arg, IsDigits) /\ ~HasColon(BeforeLastColon(arg)))
                => parsed = ParsedNull

\* a name with a line hint has been recognised
C19_Witness ==
    /\ Parsed
    /\ NameLineForm(call.arg)
    /\ outcome.value.mode = "name"
    /\ outcome.value.line = 1

(***************************************************************************)
(* C18.  The command exits with status 0 after printing the usage for      *)
(* --help, -h or no arguments, without a lookup; with status 1 after       *)
(* printing a format error to standard error for a malformed first         *)
(* argument, without a lookup; with status 1 after printing the error's    *)
(* message to standard error for any lookup failure; and with status 0     *)
(* only otherwise (a successful lookup, or setup).                         *)
(***************************************************************************)
Commanded == pc = "done" /\ call.op = "main"
HasArg(texts) == \E k \in DOMAIN call.args : join(call.args[k]) \in texts
AsksHelp == HasArg({"--help", "-h"}) \/ call.args = <<>>
AsksSetup == ~AsksHelp /\ call.args[1] = <<"setup">>
Malformed ==
    /\ ~AsksHelp /\ ~AsksSetup
    /\ ~(PositionForm(call.args[1]) \/ NameLineForm(call.args[1])
         \/ NameForm(call.args[1]))
\* the lookup the arguments ask for, when they are well formed
Asked ==
    hover(parsePositionArg(call.args[1]), projectOf(call.args),
          HasArg({"--docs", "-d"}), call.thrown).outcome
LooksUp == ~AsksHelp /\ ~AsksSetup /\ ~Malformed /\ trace # <<>>

UsageExit ==
    AsksHelp => /\ outcome.status = 0 /\ outcome.stdout = <<"HELP">>
                /\ outcome.stderr = <<>> /\ trace = <<>>
FormatExit ==
    Malformed => /\ outcome.status = 1 /\ outcome.stderr = FormatError
                 /\ trace = <<>>
SuccessOnly ==
    outcome.status = 0
    => \/ AsksHelp
       \/ AsksSetup
       \/ LooksUp /\ Asked.tag = "return"
                  /\ outcome.stdout[1] = <<Asked.value.signature>>

C18_ExitStatus ==
    Commanded =>
        /\ UsageExit
        /\ FormatExit
        /\ (LooksUp /\ Asked.tag = "throw")
              => /\ outcome.status = 1
                 /\ outcome.stderr = <<Asked.error.message>>
        /\ SuccessOnly

\* what holds of every run: the exit statuses, and the message of every
\* failure that is an Error
ExitStatusOfErrors ==
    Commanded =>
        /\ UsageExit
        /\ FormatExit
        /\ (LooksUp /\ Asked.tag = "throw")
              => /\ outcome.status = 1
                 /\ outcome.stdout = <<>>
                 /\ Asked.error.isError
                       => outcome.stderr = <<Asked.error.message>>
        /\ SuccessOnly

(***************************************************************************)
(* C20.  A run of the installer that finds the server registered and the   *)
(* guidance document in place succeeds, leaves the server registered and   *)
(* leaves the content of the document as it was; two runs in a row end in  *)
(* the state that one run ends in.  The installer is prinfer setup, which  *)
(* registers with the claude command, or postinstall.js, which registers   *)
(* in settings.json; the claude command is taken to work where setup       *)
(* relies on it.                                                           *)
(***************************************************************************)
Installing == pc = "done" /\ call.op \in {"setup", "postinstall"}
Registered(op, e) ==
    IF op = "setup" THEN e.registry # "absent" ELSE e.settings = "prinfer"
AlreadyInstalled ==
    /\ call.env.claudeDir
    /\ Registered(call.op, call.env)
    /\ call.env.skillFile # "absent"
HostWorks == call.op = "setup" => call.world # "claudeFails"
RanBefore ==
    /\ kept # NoKept
    /\ kept.call.op = call.op
    /\ kept.call.world = call.world

Extracted ==
    /\ pc = "done" /\ call.op = "getHoverInfo"
    /\ outcome.tag = "return"
Is(sf, n, kinds) == n # NoNode /\ sf.tree[n].kind \in kinds
FunctionValued(sf, n) ==
    Is(sf, sf.tree[n].initializer, {"ArrowFunction", "FunctionExpression"})
HasSignature(sf, n) == n \notin sf.unresolved
\* the rule that applies to the node: its number and the node it looks at
Rule(sf, n) ==
    IF Is(sf, n, {"CallExpression"}) THEN <<1, n>>
    ELSE IF Is(sf, n, {"FunctionDeclaration", "MethodDeclaration"})
    THEN <<2, n>>
    ELSE IF Is(sf, n, {"VariableDeclaration", "PropertyAssignment"})
               /\ FunctionValued(sf, n)
    THEN <<3, sf.tree[n].initializer>>
    ELSE IF Is(sf, n, {"MethodSignature"}) THEN <<4, n>>
    ELSE <<5, n>>
NameIdentifier(sf, n) ==
    IF Is(sf, sf.tree[n].name, {"Identifier"}) THEN sf.tree[n].name ELSE n
SignatureObtained(sf, n) ==
    Rule(sf, n)[1] # 5 /\ HasSignature(sf, Rule(sf, n)[2])

C21_FirstApplicableRule ==
    Extracted =>
        LET sf == FileOf(call)
            n == call.node
            rule == Rule(sf, n)
            result == outcome.value
        IN /\ (rule[1] = 1 /\ HasSignature(sf, n))
                 => result.signature = signatureToString("call", n)
           /\ (rule[1] = 1 /\ ~HasSignature(sf, n))
                 => result.signature = typeToString(n)
           /\ (rule[1] \in {2, 3, 4} /\ HasSignature(sf, rule[2]))
                 => result.signature = signatureToString("declaration", rule[2])
           /\ (rule[1] = 5 \/ (rule[1] \in {2, 3, 4} /\ ~HasSignature(sf, rule[2])))
                 => result.signature = typeToString(NameIdentifier(sf, n))
           /\ result.returnType # NoString <=> SignatureObtained(sf, n)
           /\ result.kind = getSymbolKind(sf, n)
           /\ result.name = getNodeName(sf, n)

\* a method declaration the checker has no signature for: the type at its
\* name identifier
C21_Witness ==
    /\ Extracted
    /\ FileOf(call).tree[call.node].kind = "MethodDeclaration"
    /\ ~HasSignature(FileOf(call), call.node)
    /\ Is(FileOf(call), FileOf(call).tree[call.node].name, {"Identifier"})
    /\ outcome.value.returnType = NoString

(***************************************************************************)
(* C22.  The smallest node at an offset.                                   *)
(***************************************************************************)
Smallest == pc = "done" /\ call.op = "findSmallestNodeAtPosition"

\* the nodes whose range [start, end) contains the offset
Containing(sf, position) == {n \in Nodes(sf) : spans(sf, n, position)}

\* the nodes of minimum width among those containing the offset
Narrowest(sf, position) ==
    {n \in Containing(sf, position) :
        \A m \in Containing(sf, position) : getWidth(sf, n) <= getWidth(sf, m)}

\* C22, as stated: findSmallestNodeAtPosition returns a node of minimum
\* width among the nodes containing the offset, and of several such nodes of
\* equal width it returns the one found first (the outermost one, the walk
\* being a pre-order descent).
C22_TiesKeepEarlier ==
    Smallest =>
        LET sf == FileOf(call)
            among == Narrowest(sf, call.position)
        IN /\ outcome.tag = "return"
           /\ IF among = {} THEN outcome.value = NoNode
              ELSE /\ outcome.value \in among
                   /\ \A m \in among : outcome.value <= m

\* C22, amended: findSmallestNodeAtPosition returns a node of minimum width
\* among the nodes containing the offset (absent when there is none), and
\* of several such nodes of equal width it returns the one found last, the
\* innermost one: a node replaces the current best when it is no wider.
C22_TiesKeepInnermost ==
    Smallest =>
        LET sf == FileOf(call)
            among == Narrowest(sf, call.position)
        IN /\ outcome.tag = "return"
           /\ IF among = {} THEN outcome.value = NoNode
              ELSE /\ outcome.value \in among
                   /\ \A m \in among : m <= outcome.value

\* an offset contained in two nodes of the same, minimum width: the inner
\* one is returned
C22_Witness ==
    /\ Smallest
    /\ outcome.tag = "return"
    /\ outcome.value # NoNode
    /\ \E m \in Narrowest(FileOf(call), call.position) :
          /\ m < outcome.value
          /\ FileOf(call).tree[outcome.value].parent = m

(***************************************************************************)
(* C23.  The two lookups of one declaration.                               *)
(***************************************************************************)
\* the declarations the name lookup resolves, calls left out
NamedDeclaration(sf, n) ==
    \/ isFunctionDeclaration(sf, n)
    \/ isMethodDeclaration(sf, n)
    \/ isMethodSignature(sf, n)
    \/ isVariableDeclaration(sf, n)
    \/ isPropertyAssignment(sf, n)

\* the 1-based (line, column) pairs that pass the bounds validation and
\* convert to the given offset
PositionsOf(sf, offset) ==
    {lc \in Lines \X Columns :
        /\ boundsOk(sf, lc[1], lc[2])
        /\ LET p == getPositionOfLineAndCharacter(sf, lc[1] - 1, lc[2] - 1)
           IN ~p.threw /\ p.position = offset}

\* hover by position at lc, everything else as in the present call
atPosition(lc) ==
    hoverByPositionImpl(call.file, lc[1], lc[2], call.project,
                        call.include_docs, call.thrown).outcome

\* C23: when hover by name succeeds on a declaration (function declaration,
\* method declaration or signature, variable declaration, property
\* assignment with a function-valued initializer), hover by position at
\* every offset of that declaration's name token succeeds with the same
\* signature and the same returnType.
C23_PositionOnNameAgrees ==
    (pc = "done" /\ call.op = "hoverByName" /\ outcome.tag = "return") =>
        LET sf == FileOf(call)
            node == findNodeByNameAndLine(sf, call.name, call.line)
        IN NamedDeclaration(sf, node) =>
            \A offset \in getStart(sf, nameOf(sf, node))
                           ..(getNodeEnd(sf, nameOf(sf, node)) - 1) :
                \A lc \in PositionsOf(sf, offset) :
                    /\ atPosition(lc).tag = "return"
                    /\ atPosition(lc).value.signature = outcome.value.signature
                    /\ atPosition(lc).value.returnType = outcome.value.returnType

(***************************************************************************)
(* C24.  The lines of a successful lookup from the command line.           *)
(***************************************************************************)
\* the lookup a run of the command line makes, if its arguments get that far
MakesLookup ==
    /\ pc = "done" /\ call.op = "main"
    /\ Len(call.args) > 0
    /\ ~includes(call.args, {"--help", "-h"})
    /\ join(call.args[1]) # "setup"
    /\ parsePositionArg(call.args[1]) # ParsedNull
    /\ truthyString(projectOf(call.args))

TheLookup ==
    hover(parsePositionArg(call.args[1]), projectOf(call.args),
          includes(call.args, {"--docs", "-d"}), call.thrown).outcome

LookupSucceeded == MakesLookup /\ TheLookup.tag = "return"

\* the place of a label in the order returns, name, kind, docs
Rank(label) ==
    IF label = "returns:" THEN 1 ELSE IF label = "name:" THEN 2
    ELSE IF label = "kind:" THEN 3 ELSE IF label = "docs:" THEN 4 ELSE 0

\* the labelled line <<label, value>> is among the lines after the first
Printed(lines, label, value) ==
    \E i \in 2..Len(lines) : lines[i] = <<label, value>>

Labelled(lines, label) ==
    \E i \in 2..Len(lines) : lines[i][1] = label

\* C24: on a successful lookup the command line writes to standard output,
\* in this order and one per line: the signature, first and with nothing
\* before it; "returns: <type>" only if a return type is present;
\* "name: <name>" only if a name is present; "kind: <kind>" always;
\* "docs: <text>" only if documentation was requested and is present.
C24_OutputOrder ==
    LookupSucceeded =>
        LET r == TheLookup.value
            lines == outcome.stdout
        IN /\ Len(lines) >= 2
           /\ lines[1] = <<r.signature>>
           /\ \A i \in 2..Len(lines) :
                 /\ Len(lines[i]) = 2
                 /\ Rank(lines[i][1]) > 0
                 /\ \A j \in 2..Len(lines) :
                       i < j => Rank(lines[i][1]) < Rank(lines[j][1])
           /\ Printed(lines, "kind:", r.kind)
           /\ Labelled(lines, "returns:") <=> r.returnType # NoString
           /\ Labelled(lines, "returns:") => Printed(lines, "returns:", r.returnType)
           /\ Labelled(lines, "name:") <=> r.name # NoString
           /\ Labelled(lines, "name:") => Printed(lines, "name:", r.name)
           /\ Labelled(lines, "docs:") <=>
                 (includes(call.args, {"--docs", "-d"})
                  /\ r.documentation # NoString)
           /\ Labelled(lines, "docs:") => Printed(lines, "docs:", r.documentation)

\* a lookup that prints all five lines
C24_Witness ==
    /\ LookupSucceeded
    /\ Len(outcome.stdout) = 5
    /\ outcome.stdout[3][1] = "name:"
    /\ outcome.stdout[4][1] = "kind:"

(***************************************************************************)
(* C25.  The offset of a validated position.                               *)
(***************************************************************************)
\* C25: for every (line, column) that passes the bounds validation of
\* findNodeAtPosition, the offset of the position lies on the queried line
\* (at or after its start and before the start of the next line or, on the
\* last line, at or before the end of the file), so the conversion does
\* not raise the compiler's range assertion.
C25_OffsetOnQueriedLine ==
    (pc = "done" /\ call.op = "findNodeAtPosition"
       /\ boundsOk(FileOf(call), call.line, call.column)) =>
        LET sf == FileOf(call)
            starts == getLineStarts(sf)
            offset == starts[call.line] + (call.column - 1)
        IN /\ offset >= starts[call.line]
           /\ IF call.line < Len(starts) THEN offset < starts[call.line + 1]
              ELSE offset <= getEnd(sf)
           /\ outcome.tag = "return"

(***************************************************************************)
(* C26.  The node found at a position, against the smallest node there.    *)
(***************************************************************************)
\* a is n or an ancestor of n
RECURSIVE SelfOrAncestor(_, _, _)
SelfOrAncestor(sf, a, n) ==
    IF n = NoNode THEN FALSE
    ELSE IF a = n THEN TRUE
    ELSE SelfOrAncestor(sf, a, sf.tree[n].parent)

\* the offset findNodeAtPosition looks up for the present call
QueriedOffset ==
    getLineStarts(FileOf(call))[call.line] + (call.column - 1)

FoundAtPosition ==
    /\ pc = "done" /\ call.op = "findNodeAtPosition"
    /\ outcome.tag = "return" /\ outcome.value # NoNode

\* token is the name token of the declaration n
NameTokenOf(sf, token, n) ==
    /\ Is(sf, n, {"FunctionDeclaration", "VariableDeclaration",
                  "MethodDeclaration", "MethodSignature",
                  "ClassDeclaration", "InterfaceDeclaration"})
    /\ token = nameOf(sf, n)

\* token is the callee name of the call n: the callee identifier, or the
\* member name of a property-access callee
CalleeNameOf(sf, token, n) ==
    /\ isCallExpression(sf, n)
    /\ \/ token = expressionOf(sf, n) /\ isIdentifier(sf, token)
       \/ /\ isPropertyAccessExpression(sf, expressionOf(sf, n))
          /\ token = nameOf(sf, expressionOf(sf, n))

\* C26: whenever findNodeAtPosition returns a node, the node's range
\* [start, end) contains the queried offset and the node is the smallest
\* node containing the offset or one of its ancestors; it differs from the
\* smallest node only when the smallest node is the name token of the
\* returned declaration or the callee name of the returned call.
C26_FoundIsSmallestOrPromoted ==
    FoundAtPosition =>
        LET sf == FileOf(call)
            node == outcome.value
            smallest == findSmallestNodeAtPosition(sf, QueriedOffset)
        IN /\ spans(sf, node, QueriedOffset)
           /\ SelfOrAncestor(sf, node, smallest)
           /\ node # smallest =>
                 \/ NameTokenOf(sf, smallest, node)
                 \/ CalleeNameOf(sf, smallest, node)

\* a position on the member name of a property-access callee: the call is
\* returned, not the name found there
C26_Witness ==
    /\ FoundAtPosition
    /\ isCallExpression(FileOf(call), outcome.value)
    /\ findSmallestNodeAtPosition(FileOf(call), QueriedOffset) # outcome.value
    /\ isPropertyAccessExpression(FileOf(call),
                                  expressionOf(FileOf(call), outcome.value))

(***************************************************************************)
(* C27.  Validated positions inside and outside the root range.            *)
(***************************************************************************)
\* the offset lies in the range of the source file node: from the start of
\* its first token to the end of the file
InRootRange(sf, offset) == spans(sf, Root, offset)

\* C27: for a position that passes the bounds validation,
\* findNodeAtPosition returns absent exactly when the offset lies outside
\* the range of the source file node; for every offset inside it (white
\* space, comments and line terminators between declarations included) it
\* returns a node enclosing the offset, and hover by position goes on to
\* extract a result from it instead of reporting that no symbol was found.
C27_AbsentExactlyOutsideRoot ==
    /\ (pc = "done" /\ call.op = "findNodeAtPosition"
          /\ boundsOk(FileOf(call), call.line, call.column)) =>
           /\ outcome.tag = "return"
           /\ outcome.value = NoNode
                 <=> ~InRootRange(FileOf(call), QueriedOffset)
           /\ outcome.value # NoNode
                 => SelfOrAncestor(FileOf(call), outcome.value,
                        findSmallestNodeAtPosition(FileOf(call), QueriedOffset))
    /\ (pc = "done" /\ call.op = "hoverByPosition" /\ Len(trace) >= 3
          /\ boundsOk(FileOf(call), call.line, call.column)
          /\ InRootRange(FileOf(call), QueriedOffset)) =>
           trace[Len(trace)] = "getHoverInfo"

(***************************************************************************)
(* C28.  The name and the kind of a result found by name.                  *)
(***************************************************************************)
\* C28: whenever hover by name succeeds for a name, the result carries that
\* name and its kind is one of function, method, variable and call, for
\* every shape of node the name matcher accepts.
C28_NameAndKindOfNamedResult ==
    (pc = "done" /\ call.op = "hoverByName" /\ outcome.tag = "return") =>
        /\ outcome.value.name = call.name
        /\ outcome.value.kind \in {"function", "method", "variable", "call"}

(***************************************************************************)
(* C29.  The line of a result found with a line hint.                      *)
(***************************************************************************)
FoundWithHint ==
    /\ pc = "done" /\ call.op = "hoverByName"
    /\ call.line # Undefined
    /\ outcome.tag = "return"

\* C29: whenever hover by name is given a line hint and succeeds, the line
\* of the result is the hinted line.
C29_ResultOnHintedLine ==
    FoundWithHint => outcome.value.line = call.line

\* a hint that decides between two nodes of the same name: without it the
\* lookup resolves another node
C29_Witness ==
    /\ FoundWithHint
    /\ findNodeByNameAndLine(FileOf(call), call.name, Undefined)
         # findNodeByNameAndLine(FileOf(call), call.name, call.line)

(***************************************************************************)
(* C30.  getTypeInfo against getHoverInfo.                                 *)
(***************************************************************************)
TypeInfoReturned ==
    /\ pc = "done" /\ call.op = "getTypeInfo"
    /\ outcome.tag = "return"

\* what getHoverInfo returns for the node of the present call
HoverInfoOfCall(includeDocs) ==
    getHoverInfo(FileOf(call), call.node, includeDocs, call.thrown)

\* C30: for every node, getTypeInfo(program, node) and getHoverInfo(program,
\* node, sourceFile, includeDocs) return the same signature, the same
\* returnType and the same line, whether documentation is asked for or not.
C30_TypeInfoAgreesWithHoverInfo ==
    TypeInfoReturned =>
        \A includeDocs \in BOOLEAN :
            /\ HoverInfoOfCall(includeDocs).tag = "return"
            /\ HoverInfoOfCall(includeDocs).value.signature
                 = outcome.value.signature
            /\ HoverInfoOfCall(includeDocs).value.returnType
                 = outcome.value.returnType
            /\ HoverInfoOfCall(includeDocs).value.line = outcome.value.line

\* a declaration without a signature, whose type is taken at its name, on a
\* line after the first
C30_Witness ==
    /\ TypeInfoReturned
    /\ isVariableDeclaration(FileOf(call), call.node)
    /\ outcome.value.returnType = NoString
    /\ outcome.value.signature
         = typeToString(nameOf(FileOf(call), call.node))
    /\ outcome.value.line > 1
====
